---- MODULE Spec2Model ----
(***************************************************************************)
(* Model of the S3Represent family of modules/s3/s3fields.py: the lazy,    *)
(* batched representation of foreign keys and option values.               *)
(*                                                                         *)
(* Python values are records [kind, num, txt, items]:                      *)
(*   None      kind "none"                                                 *)
(*   integers  kind "int",  num the integer                                *)
(*   strings   kind "str",  txt the sequence of characters                 *)
(*   lists     kind "list", items the sequence of elements                 *)
(* A label (a unicode string or a piece of markup) is a sequence of string  *)
(* tokens; joining and templating concatenate token sequences.             *)
(***************************************************************************)
EXTENDS Integers, Sequences, FiniteSets, TLC

VARIABLES self, db, schema, parent, last, changes, again, unresolved, lazies, ctx

vars == <<self, db, schema, parent, last, changes, again, unresolved, lazies, ctx>>

(* ------------------------------------------------------------------ *)
(* Bounds of the model                                                 *)
(* ------------------------------------------------------------------ *)
MaxKey == 3
MaxQueries == 2
MaxDbChanges == 1
MaxLen == 2
MaxLazy == 2

Keys == 1..MaxKey

(* ------------------------------------------------------------------ *)
(* Python values                                                       *)
(* ------------------------------------------------------------------ *)
None == [kind |-> "none", num |-> 0, txt |-> <<>>, items |-> <<>>]
PyInt(n) == [kind |-> "int", num |-> n, txt |-> <<>>, items |-> <<>>]
PyStr(s) == [kind |-> "str", num |-> 0, txt |-> s, items |-> <<>>]
PyList(xs) == [kind |-> "list", num |-> 0, txt |-> <<>>, items |-> xs]

\* Python truth value of a value: None, 0, "" and [] are false
Truthy(v) ==
    CASE v.kind = "none" -> FALSE
      [] v.kind = "int" -> v.num # 0
      [] v.kind = "str" -> v.txt # <<>>
      [] OTHER -> v.items # <<>>

Digits == <<"0", "1", "2", "3", "4", "5", "6", "7", "8", "9">>

IsDigit(c) == \E i \in 1..Len(Digits) : Digits[i] = c

DigitVal(c) == (CHOOSE i \in 1..Len(Digits) : Digits[i] = c) - 1

RECURSIVE StripLeft(_)
StripLeft(s) == IF s # <<>> /\ Head(s) = " " THEN StripLeft(Tail(s)) ELSE s

RECURSIVE StripRight(_)
StripRight(s) ==
    IF s # <<>> /\ s[Len(s)] = " " THEN StripRight(SubSeq(s, 1, Len(s) - 1)) ELSE s

RECURSIVE DigitsVal(_)
DigitsVal(s) ==
    IF s = <<>> THEN 0 ELSE 10 * DigitsVal(SubSeq(s, 1, Len(s) - 1)) + DigitVal(s[Len(s)])

\* int(_v) of a string: surrounding blanks are stripped, then one or more
\* decimal digits are read; anything else raises ValueError
CanParseInt(s) ==
    LET t == StripRight(StripLeft(s))
    IN  t # <<>> /\ \A i \in 1..Len(t) : IsDigit(t[i])

ParseInt(s) == DigitsVal(StripRight(StripLeft(s)))

\* s3_unicode of a non-negative integer
RECURSIVE IntStr(_)
IntStr(n) ==
    IF n < 10 THEN <<Digits[n + 1]>> ELSE IntStr(n \div 10) \o <<Digits[(n % 10) + 1]>>

\* s3_unicode of a key value, as used for the link target
s3_unicode(v) ==
    CASE v.kind = "none" -> <<"None">>
      [] v.kind = "int" -> IntStr(v.num)
      [] v.kind = "str" -> v.txt
      [] OTHER -> <<"[list]">>

(* ------------------------------------------------------------------ *)
(* Finite maps (Python dicts) as functions                             *)
(* ------------------------------------------------------------------ *)
EmptyMap == <<>>

Put(m, k, x) == [j \in DOMAIN m \cup {k} |-> IF j = k THEN x ELSE m[j]]

Del(m, k) == [j \in DOMAIN m \ {k} |-> m[j]]

\* a local variable: F of the value v it is bound to
Bind(v, F(_)) == F(v)

RECURSIVE Join(_, _)
\* sep.join(labels)
Join(labels, sep) ==
    IF labels = <<>> THEN <<>>
    ELSE IF Len(labels) = 1 THEN labels[1]
    ELSE labels[1] \o sep \o Join(Tail(labels), sep)

(* ------------------------------------------------------------------ *)
(* The environment: messages, the lookup table and its hierarchy       *)
(* ------------------------------------------------------------------ *)
\* current.messages.UNKNOWN_OPT and current.messages["NONE"]
UNKNOWN_OPT == <<"Unknown">>
NONE == <<"-">>

\* a constructor argument left at None
Unset == <<"<None>">>

\* db[k] for a key without a row
NoRow == "<no row>"

\* the names a row of the lookup table can carry: two versions per key
RowName(k, ver) == "N" \o ToString(k) \o (IF ver = 1 THEN "" ELSE "'")

Row(k, name) == [id |-> k, name |-> name]

\* row[f] as a unicode string; None and "" both give the empty string
RowField(row, f) ==
    CASE f = "id" -> IntStr(row.id)
      [] f = "name" -> IF row.name = "" THEN <<>> ELSE <<row.name>>
      [] OTHER -> <<>>

\* row[key]: the lookup key of a row
RowKey(row) == PyInt(row.id)

\* h.parent(node_id) of the S3Hierarchy of the lookup table; 0 stands for None
HParent(node) ==
    IF node.kind = "int" /\ node.num \in DOMAIN parent /\ parent[node.num] # 0
    THEN PyInt(parent[node.num])
    ELSE None

\* current.db(query).select(*fields): the rows whose key is among values,
\* as the dict {row[key]: row}
Select(values) ==
    LET hit == {v \in values : v.kind = "int" /\ v.num \in DOMAIN db /\ db[v.num] # NoRow}
    IN  [v \in hit |-> Row(v.num, db[v.num])]

(* ------------------------------------------------------------------ *)
(* S3Represent                                                         *)
(* ------------------------------------------------------------------ *)
\* S3Represent.__init__: the state after construction with the arguments cfg
S3Represent(cfg) ==
    [tablename |-> cfg.lookup,
     table |-> FALSE,
     key |-> cfg.key,
     fields |-> cfg.fields,
     options |-> cfg.options,
     list_type |-> cfg.multiple,
     hierarchy |-> cfg.hierarchy,
     linkto |-> cfg.linkto,
     show_link |-> cfg.show_link,
     default |-> cfg.default,
     none |-> cfg.none,
     field_sep |-> <<" ">>,
     setup |-> FALSE,
     theset |-> Unset,
     queries |-> 0,
     lazy |-> <<>>,
     rows |-> EmptyMap,
     htemplate |-> Unset,
     custom_lookup |-> cfg.custom_lookup]

\* the options argument when no options dictionary is given
NoOptions == [none |-> TRUE, map |-> EmptyMap]

\* URL(c=c, f=f, args=["[id]"]): the placeholder comes out percent-encoded
URL(c, f) == <<"/", c, "/", f, "/", "%5Bid%5D">>

\* a _setup without the test of self.setup: it initialises at every call
SetupAgain(s) ==
    LET      found == s.tablename # <<>> /\ schema.exists
         IN  [s EXCEPT
                !.queries = 0,
                !.default = IF s.default = Unset THEN UNKNOWN_OPT ELSE s.default,
                !.none = IF s.none = Unset THEN NONE ELSE s.none,
                !.theset = IF ~s.options.none THEN s.options.map ELSE EmptyMap,
                !.key = IF found /\ s.key = "" THEN "id" ELSE s.key,
                !.fields = IF found /\ s.fields = <<>>
                           THEN IF "name" \in schema.attrs THEN <<"name">>
                                ELSE <<IF s.key = "" THEN "id" ELSE s.key>>
                           ELSE s.fields,
                !.table = found,
                !.linkto = IF s.tablename # <<>> /\ s.linkto = Unset /\ s.show_link
                           THEN URL(s.tablename[1], s.tablename[2])
                           ELSE s.linkto,
                !.htemplate = IF s.hierarchy.template # <<>>
                              THEN s.hierarchy.template
                              ELSE <<"%s", " > ", "%s">>,
                !.setup = TRUE]

\* a _setup that takes a table handle for any lookup name, resolved or not
SetupTable(s) ==
    IF s.setup THEN s
    ELSE [SetupAgain(s) EXCEPT
            !.table = s.tablename # <<>>,
            !.key = IF s.key = "" THEN "id" ELSE s.key,
            !.fields = IF s.fields = <<>> THEN <<"name">> ELSE s.fields]

\* S3Represent._setup
Setup(s) ==
    IF s.setup THEN s
    ELSE LET found == s.tablename # <<>> /\ schema.exists
         IN  [s EXCEPT
                !.queries = 0,
                !.default = IF s.default = Unset THEN UNKNOWN_OPT ELSE s.default,
                !.none = IF s.none = Unset THEN NONE ELSE s.none,
                !.theset = IF ~s.options.none THEN s.options.map ELSE EmptyMap,
                !.key = IF found /\ s.key = "" THEN "id" ELSE s.key,
                !.fields = IF found /\ s.fields = <<>>
                           THEN IF "name" \in schema.attrs THEN <<"name">>
                                ELSE <<IF s.key = "" THEN "id" ELSE s.key>>
                           ELSE s.fields,
                !.table = found,
                !.linkto = IF s.tablename # <<>> /\ s.linkto = Unset /\ s.show_link
                           THEN URL(s.tablename[1], s.tablename[2])
                           ELSE s.linkto,
                !.htemplate = IF s.hierarchy.template # <<>>
                              THEN s.hierarchy.template
                              ELSE <<"%s", " > ", "%s">>,
                !.setup = TRUE]

RECURSIVE Format(_, _)
\* template % args: each "%s" of the template takes the next argument
Format(template, args) ==
    IF template = <<>> THEN <<>>
    ELSE IF Head(template) = "%s" /\ args # <<>>
         THEN Head(args) \o Format(Tail(template), Tail(args))
         ELSE <<Head(template)>> \o Format(Tail(template), args)

RECURSIVE Replace(_, _, _)
\* s.replace(old, new), old being one token of s
Replace(str, old, new) ==
    IF str = <<>> THEN <<>>
    ELSE (IF Head(str) = old THEN new ELSE <<Head(str)>>) \o Replace(Tail(str), old, new)

\* S3Represent.represent_row with the default renderer; prefix <<>> is None
represent_row(s, row, prefix) ==
    LET all == [i \in 1..Len(s.fields) |-> RowField(row, s.fields[i])]
        values == SelectSeq(all, LAMBDA x : x # <<>>)
        v == IF values # <<>> THEN Join(values, s.field_sep) ELSE s.none
    IN  IF prefix # <<>> /\ s.hierarchy.on THEN Format(s.htemplate, <<prefix, v>>) ELSE v

\* A(v, _href=url)
A(v, url) == <<"<a href='">> \o url \o <<"'>">> \o v \o <<"</a>">>

\* a link that wraps the label whether or not there is a link template
link_always(s, k, v) ==
    A(v, Replace(Replace(s.linkto, "[id]", s3_unicode(k)), "%5Bid%5D", s3_unicode(k)))

\* S3Represent.link
link(s, k, v) ==
    IF s.linkto # Unset /\ s.linkto # <<>>
    THEN A(v, Replace(Replace(s.linkto, "[id]", s3_unicode(k)), "%5Bid%5D", s3_unicode(k)))
    ELSE v

RECURSIVE Singletons(_)
\* one key set per key of S
Singletons(S) ==
    IF S = {} THEN <<>>
    ELSE LET x == CHOOSE x \in S : TRUE IN <<{x}>> \o Singletons(S \ {x})

\* a row lookup that makes one select per key
lookup_rows_per_key(s, values) ==
    [self |-> [s EXCEPT !.queries = s.queries + Cardinality(values)],
     rows |-> Select(values), calls |-> Singletons(values)]

\* S3Represent._lookup_rows: one select, counted in self.queries
\* in calls: the key set the select was made for
lookup_rows(s, values) ==
    [self |-> [s EXCEPT !.queries = s.queries + 1], rows |-> Select(values), calls |-> <<values>>]

\* a lookup key that is the raw value: strings are not converted
LookupKeyRaw(s, v) == v

\* the lookup key of a raw value (_lookup, lines 630-635): with a lookup
\* table, a string that int() accepts becomes that integer
LookupKey(s, v) ==
    IF v.kind = "str" /\ s.table /\ CanParseInt(v.txt) THEN PyInt(ParseInt(v.txt)) ELSE v

RECURSIVE CheckValuesUncached(_, _, _)
\* the check of the values without the test "v in theset": every key is pending
CheckValuesUncached(s, values, acc) ==
    IF values = <<>> THEN acc
    ELSE Bind(LookupKey(s, Head(values)), LAMBDA v :
             LET _v == Head(values)
                 keys == Put(acc.keys, v, _v)
             IN  CheckValuesUncached(s, Tail(values),
                     IF v = None
                     THEN [acc EXCEPT !.keys = keys, !.items = Put(acc.items, _v, s.none)]
                     ELSE [acc EXCEPT !.keys = keys, !.lookup = Put(acc.lookup, v, TRUE)]))

RECURSIVE CheckValuesOnce(_, _, _)
\* the check of the values with a memory of the misses: a key that was
\* selected before without result gets the default label and is not pending
CheckValuesOnce(s, values, acc) ==
    IF values = <<>> THEN acc
    ELSE Bind(LookupKey(s, Head(values)), LAMBDA v :
             LET _v == Head(values)
                 keys == Put(acc.keys, v, _v)
             IN  CheckValuesOnce(s, Tail(values),
                     IF v = None
                     THEN [acc EXCEPT !.keys = keys, !.items = Put(acc.items, _v, s.none)]
                     ELSE IF v \in DOMAIN s.theset
                     THEN [acc EXCEPT !.keys = keys, !.items = Put(acc.items, _v, s.theset[v])]
                     ELSE IF v \in unresolved
                     THEN [acc EXCEPT !.keys = keys, !.items = Put(acc.items, _v, s.default)]
                     ELSE [acc EXCEPT !.keys = keys, !.lookup = Put(acc.lookup, v, TRUE)]))

RECURSIVE CheckValues(_, _, _)
\* _lookup, lines 629-642: acc = [keys, items, lookup] after the values from i on
CheckValues(s, values, acc) ==
    IF values = <<>> THEN acc
    ELSE Bind(LookupKey(s, Head(values)), LAMBDA v :
             LET _v == Head(values)
                 keys == Put(acc.keys, v, _v)
             IN  CheckValues(s, Tail(values),
                     IF v = None
                     THEN [acc EXCEPT !.keys = keys, !.items = Put(acc.items, _v, s.none)]
                     ELSE IF v \in DOMAIN s.theset
                     THEN [acc EXCEPT !.keys = keys, !.items = Put(acc.items, _v, s.theset[v])]
                     ELSE [acc EXCEPT !.keys = keys, !.lookup = Put(acc.lookup, v, TRUE)]))

\* a lookup_parent that enqueues no ancestor
lookup_parent_none(s, lookup, node_id) == lookup

RECURSIVE lookup_parent(_, _, _)
\* _lookup.lookup_parent: enqueue the ancestors of node_id that are neither
\* cached nor enqueued
lookup_parent(s, lookup, node_id) ==
    LET p == HParent(node_id)
    IN  IF Truthy(p) /\ p \notin DOMAIN s.theset /\ p \notin DOMAIN lookup
        THEN lookup_parent(s, Put(lookup, p, FALSE), p)
        ELSE lookup

RECURSIVE LookupParents(_, _, _)
\* _lookup, lines 660-661: lookup_parent for every pending key
LookupParents(s, lookup, nodes) ==
    IF nodes = {} THEN lookup
    ELSE LET n == CHOOSE n \in nodes : TRUE
         IN  LookupParents(s, lookup_parent(s, lookup, n), nodes \ {n})

\* keys.get(k, k)
RawOf(keys, k) == IF k \in DOMAIN keys THEN keys[k] ELSE k

RECURSIVE KeepRows(_, _)
\* bulk, lines 495-498: remember the rows the caller gave in self.rows
KeepRows(cache, rows) ==
    IF rows = <<>> THEN cache
    ELSE KeepRows(Put(cache, RowKey(Head(rows)), Head(rows)), Tail(rows))

\* row[f] is defined for every display field f: a row, whether selected by
\* _lookup or handed in by the caller, has the attributes of the table only
HasFields(s) == \A i \in 1..Len(s.fields) : s.fields[i] \in schema.attrs

\* the position of the first of the rows whose key is not in theset, the
\* first that represent_row is called for (line 684); 0 if there is none
FirstNew(s, rows) ==
    IF \A i \in 1..Len(rows) : RowKey(rows[i]) \in DOMAIN s.theset THEN 0
    ELSE CHOOSE i \in 1..Len(rows) :
             /\ RowKey(rows[i]) \notin DOMAIN s.theset
             /\ \A j \in 1..(i - 1) : RowKey(rows[j]) \in DOMAIN s.theset

RECURSIVE UseRows(_, _, _)
\* _lookup, lines 680-686: resolve pending keys from the rows the caller gave;
\* acc = [theset, rows, lookup, items, keys]
UseRows(s, rows, acc) ==
    IF rows = <<>> THEN acc
    ELSE Bind(IF RowKey(Head(rows)) \notin DOMAIN acc.theset
              THEN Put(acc.theset, RowKey(Head(rows)), represent_row(s, Head(rows), <<>>))
              ELSE acc.theset,
              LAMBDA theset :
             LET row == Head(rows)
                 k == RowKey(row)
                 hit == k \in DOMAIN acc.lookup /\ acc.lookup[k]
             IN  UseRows(s, Tail(rows),
                     [acc EXCEPT !.theset = theset,
                                 !.rows = Put(acc.rows, k, row),
                                 !.lookup = Del(acc.lookup, k),
                                 !.items = IF hit THEN Put(acc.items, RawOf(acc.keys, k), theset[k])
                                           ELSE acc.items]))

RECURSIVE represent_path_loop(_, _, _, _, _, _)
\* a _represent_path that recurses into the value itself, not its parent
represent_path_loop(s, theset, value, row, rows, fuel) ==
    IF fuel = 0 THEN [theset |-> theset, label |-> <<>>, ok |-> FALSE]
    ELSE represent_path_loop(s, theset, value, row, rows, fuel - 1)

RECURSIVE represent_path_guarded(_, _, _, _, _, _)
\* a _represent_path with a guard: it gives up the prefix, and returns, where
\* the recursion has run longer than any chain of distinct rows
represent_path_guarded(s, theset, value, row, rows, fuel) ==
    IF value \in DOMAIN theset THEN [theset |-> theset, label |-> theset[value], ok |-> TRUE]
    ELSE Bind(HParent(value), LAMBDA p :
         Bind(IF Truthy(p) /\ p \notin DOMAIN theset /\ p \in DOMAIN rows /\ fuel # 0
              THEN represent_path_guarded(s, theset, p, rows[p], rows, fuel - 1)
              ELSE [theset |-> theset,
                    label |-> IF Truthy(p) /\ p \in DOMAIN theset THEN theset[p] ELSE <<>>,
                    ok |-> TRUE],
              LAMBDA up :
         Bind(represent_row(s, row, up.label), LAMBDA result :
             [theset |-> Put(up.theset, value, result), label |-> result, ok |-> TRUE])))

RECURSIVE represent_path_top(_, _, _, _, _, _)
\* a _represent_path that caches the label of the value it was called for,
\* and not the labels it made for the ancestors on the way
represent_path_top(s, theset, value, row, rows, fuel) ==
    IF value \in DOMAIN theset THEN [theset |-> theset, label |-> theset[value], ok |-> TRUE]
    ELSE Bind(HParent(value), LAMBDA p :
         Bind(IF Truthy(p) /\ p \notin DOMAIN theset /\ p \in DOMAIN rows
              THEN IF fuel = 0
                   THEN [theset |-> theset, label |-> <<>>, ok |-> FALSE]
                   ELSE represent_path_top(s, theset, p, rows[p], rows, fuel - 1)
              ELSE [theset |-> theset,
                    label |-> IF Truthy(p) /\ p \in DOMAIN theset THEN theset[p] ELSE <<>>,
                    ok |-> TRUE],
              LAMBDA up :
         Bind(represent_row(s, row, up.label), LAMBDA result :
             IF up.ok
             THEN [theset |-> Put(theset, value, result), label |-> result, ok |-> TRUE]
             ELSE up)))

RECURSIVE represent_path(_, _, _, _, _, _)
\* S3Represent._represent_path on the cache theset: [theset, label, ok];
\* ok is FALSE when the recursion has run longer than any parent chain of
\* distinct rows can be, i.e. when it never returns
represent_path(s, theset, value, row, rows, fuel) ==
    IF value \in DOMAIN theset THEN [theset |-> theset, label |-> theset[value], ok |-> TRUE]
    ELSE Bind(HParent(value), LAMBDA p :
         Bind(IF Truthy(p) /\ p \notin DOMAIN theset /\ p \in DOMAIN rows
              THEN IF fuel = 0
                   THEN [theset |-> theset, label |-> <<>>, ok |-> FALSE]
                   ELSE represent_path(s, theset, p, rows[p], rows, fuel - 1)
              ELSE [theset |-> theset,
                    label |-> IF Truthy(p) /\ p \in DOMAIN theset THEN theset[p] ELSE <<>>,
                    ok |-> TRUE],
              LAMBDA up :
         Bind(represent_row(s, row, up.label), LAMBDA result :
             IF up.ok
             THEN [theset |-> Put(up.theset, value, result), label |-> result, ok |-> TRUE]
             ELSE up)))

RECURSIVE RenderFetched(_, _, _, _, _)
\* _lookup, lines 704-715: label the fetched rows; acc = [theset, lookup, items, ok]
RenderFetched(s, h, rows, todo, acc) ==
    IF todo = {} \/ ~acc.ok THEN acc
    ELSE Bind(CHOOSE k \in todo : TRUE, LAMBDA k :
         Bind(represent_path(s, acc.theset, k, rows[k], rows, Cardinality(DOMAIN rows)),
              LAMBDA path :
         Bind(represent_row(s, rows[k], <<>>), LAMBDA flat :
             LET wanted == k \in DOMAIN acc.lookup /\ acc.lookup[k]
                 raw == RawOf(acc.keys, k)
             IN  RenderFetched(s, h, rows, todo \ {k},
                     IF h
                     THEN IF wanted
                          THEN [acc EXCEPT !.lookup = Del(acc.lookup, k),
                                           !.theset = path.theset,
                                           !.items = IF path.ok
                                                     THEN Put(acc.items, raw, path.label)
                                                     ELSE acc.items,
                                           !.ok = path.ok]
                          ELSE [acc EXCEPT !.lookup = Del(acc.lookup, k)]
                     ELSE [acc EXCEPT !.lookup = Del(acc.lookup, k),
                                      !.theset = Put(acc.theset, k, flat),
                                      !.items = Put(acc.items, raw, flat)]))))

RECURSIVE DefaultRestNone(_, _, _)
\* the keys still pending get the none label instead of the default label
DefaultRestNone(s, acc, todo) ==
    IF todo = {} THEN acc
    ELSE LET k == CHOOSE k \in todo : TRUE
         IN  DefaultRestNone(s, [acc EXCEPT !.items = Put(acc.items, RawOf(acc.keys, k), s.none)],
                             todo \ {k})

RECURSIVE DefaultRest(_, _, _)
\* _lookup, lines 717-719: the keys still pending get the default label
DefaultRest(s, acc, todo) ==
    IF todo = {} THEN acc
    ELSE LET k == CHOOSE k \in todo : TRUE
         IN  DefaultRest(s, [acc EXCEPT !.items = Put(acc.items, RawOf(acc.keys, k), s.default)],
                         todo \ {k})

\* the rows argument when the caller gives None
NoRows == <<>>

\* the result of a method: the representer afterwards, the returned value,
\* the key sets handed to lookup_rows, and the exception raised ("" if none)
Result(s, ret, fetched, err) == [self |-> s, ret |-> ret, fetched |-> fetched, err |-> err]

\* _lookup, lines 647-686: the pending keys with their ancestors, then what
\* the rows given by the caller resolve; [theset, rows, lookup, items, keys]
GivenRows(s, rows, c, hier) ==
    Bind(IF hier THEN LookupParents(s, c.lookup, DOMAIN c.lookup) ELSE c.lookup,
         LAMBDA lookup :
        IF rows # <<>> /\ ~s.custom_lookup
        THEN UseRows(s, rows, [theset |-> s.theset, rows |-> s.rows,
                               lookup |-> lookup, items |-> c.items, keys |-> c.keys])
        ELSE [theset |-> s.theset, rows |-> s.rows,
              lookup |-> lookup, items |-> c.items, keys |-> c.keys])

\* _lookup, lines 689-721: select the rows of the keys still pending, label
\* them, and give the keys without a row the default label; the row[f] of
\* represent_row (line 341) raises for a display field the rows do not have
MoreRows(s1, hier, c, given) ==
    Bind(lookup_rows(s1, DOMAIN given.lookup), LAMBDA got :
    Bind([got.self EXCEPT !.rows = [k \in DOMAIN got.self.rows \cup DOMAIN got.rows |->
                                       IF k \in DOMAIN got.rows THEN got.rows[k]
                                       ELSE got.self.rows[k]]],
         LAMBDA s2 :
        IF /\ ~HasFields(s2)
           /\ \E k \in DOMAIN got.rows : hier => (k \in DOMAIN given.lookup /\ given.lookup[k])
        THEN Result(s2, EmptyMap, got.calls, "AttributeError")
        ELSE
    Bind(RenderFetched(s2, hier, got.rows, DOMAIN got.rows,
                       [theset |-> s2.theset, lookup |-> given.lookup,
                        items |-> given.items, keys |-> c.keys, ok |-> TRUE]),
         LAMBDA done :
        IF ~done.ok
        THEN Result([s2 EXCEPT !.theset = done.theset], EmptyMap, got.calls, "RuntimeError")
        ELSE Result([s2 EXCEPT !.theset = done.theset],
                    DefaultRest(s2, [items |-> done.items, keys |-> c.keys],
                                DOMAIN done.lookup).items,
                    got.calls, ""))))

\* S3Represent._lookup
Lookup(s, values, rows) ==
    IF \E i \in 1..Len(values) : values[i].kind = "list"
    THEN Result(s, EmptyMap, <<>>, "TypeError")
    ELSE Bind(CheckValues(s, values, [keys |-> EmptyMap, items |-> EmptyMap, lookup |-> EmptyMap]),
              LAMBDA c :
             IF ~s.table \/ DOMAIN c.lookup = {} THEN Result(s, c.items, <<>>, "")
             ELSE IF s.key \notin schema.attrs THEN Result(s, c.items, <<>>, "")
             ELSE IF rows # <<>> /\ ~s.custom_lookup /\ ~HasFields(s) /\ FirstNew(s, rows) # 0
                  THEN Result([s EXCEPT !.rows = KeepRows(s.rows, SubSeq(rows, 1, FirstNew(s, rows)))],
                              EmptyMap, <<>>, "AttributeError")
             ELSE Bind(GivenRows(s, rows, c, s.table /\ s.hierarchy.on /\ schema.hconfig),
                       LAMBDA given :
                      IF DOMAIN given.lookup = {}
                      THEN Result([s EXCEPT !.theset = given.theset, !.rows = given.rows],
                                  given.items, <<>>, "")
                      ELSE MoreRows([s EXCEPT !.theset = given.theset, !.rows = given.rows],
                                    s.table /\ s.hierarchy.on /\ schema.hconfig, c, given)))

(* ------------------------------------------------------------------ *)
(* Entry points                                                        *)
(* ------------------------------------------------------------------ *)
\* the elements iterating over a value yields: a list gives its items, a
\* string its characters
Elements(v) ==
    IF v.kind = "list" THEN {v.items[i] : i \in 1..Len(v.items)}
    ELSE {PyStr(<<v.txt[i]>>) : i \in 1..Len(v.txt)}

\* set(chain.from_iterable(values)), values a sequence
FlatSet(values) == UNION {Elements(values[i]) : i \in 1..Len(values)}

\* the orders in which list(set(...)) can enumerate a set
Orders(S) == {f \in [1..Cardinality(S) -> S] : \A i, j \in 1..Cardinality(S) : f[i] = f[j] => i = j}

\* the lists of a list-type value that are not None
NotNone(values) == SelectSeq(values.items, LAMBDA i : i # None)

\* chain.from_iterable(values) raises TypeError: values is no list, one of
\* its elements cannot be iterated, or an inner element cannot be hashed
NotListOfLists(values) ==
    \/ values.kind # "list"
    \/ \E i \in 1..Len(NotNone(values)) :
           \/ NotNone(values)[i].kind \notin {"list", "str"}
           \/ \E e \in Elements(NotNone(values)[i]) : e.kind = "list"

\* the enumerations list(set(chain.from_iterable(values))) can produce
FlatOrders(values) ==
    IF NotListOfLists(values) THEN {<<>>} ELSE Orders(FlatSet(NotNone(values)))

\* [values] if type(values) is not list else values
AsList(values) == IF values.kind = "list" THEN values.items ELSE <<values>>

\* a flattening that takes an element that cannot be iterated as a value
FlattenAny(values, ord) ==
    IF NotListOfLists(values)
    THEN [err |-> "", values |-> SelectSeq(AsList(values), LAMBDA e : e.kind \in {"int", "str"})]
    ELSE [err |-> "",
          values |-> IF \E i \in 1..Len(values.items) : values.items[i] = None
                     THEN Append(ord, None)
                     ELSE ord]

\* a flattening that puts the None of the outer list first, not last
FlattenNoneFirst(values, ord) ==
    IF NotListOfLists(values) THEN [err |-> "ValueError", values |-> <<>>]
    ELSE [err |-> "",
          values |-> IF \E i \in 1..Len(values.items) : values.items[i] = None
                     THEN <<None>> \o ord
                     ELSE ord]

\* multiple and bulk, lines 436-444 and 501-509: the flattened values of a
\* list-type field, the set being enumerated in the order ord
Flatten(values, ord) ==
    IF NotListOfLists(values) THEN [err |-> "ValueError", values |-> <<>>]
    ELSE [err |-> "",
          values |-> IF \E i \in 1..Len(values.items) : values.items[i] = None
                     THEN Append(ord, None)
                     ELSE ord]

\* [row[key] for row in rows]
RowKeys(rows) == [i \in 1..Len(rows) |-> RowKey(rows[i])]

\* self.rows.get(k): not used by link in the base class
RECURSIVE Labels(_, _, _, _)
\* multiple, lines 455-457 and 463-464: the label of each value, in order
Labels(s, items, values, show_link) ==
    IF values = <<>> THEN <<>>
    ELSE LET k == Head(values)
             l == IF k \in DOMAIN items
                  THEN IF show_link THEN link(s, k, items[k]) ELSE items[k]
                  ELSE s.default
         IN  <<l>> \o Labels(s, items, Tail(values), show_link)

\* S3Represent.multiple, after _setup and with show_link already combined
\* with self.show_link
MultipleBody(s, values, rows, list_type, show_link, ord) ==
    Bind(Flatten(values, ord), LAMBDA flat :
    Bind(IF rows # <<>> /\ s.table THEN RowKeys(rows)
         ELSE IF s.list_type /\ list_type THEN flat.values
         ELSE AsList(values),
         LAMBDA vals :
    Bind(Lookup(s, vals, rows), LAMBDA r :
        IF ~(rows # <<>> /\ s.table) /\ s.list_type /\ list_type /\ flat.err # ""
        THEN Result(s, <<>>, <<>>, flat.err)
        ELSE IF vals = <<>> THEN Result(s, s.none, <<>>, "")
        ELSE IF r.err # "" THEN r
        ELSE Result(r.self, Join(Labels(r.self, r.ret, vals, show_link), <<", ">>),
                    r.fetched, ""))))

\* S3Represent.multiple
multiple(s, values, rows, list_type, show_link, ord) ==
    Bind(Setup(s), LAMBDA s1 :
        MultipleBody(s1, values, rows, list_type, show_link /\ s1.show_link, ord))

\* S3Represent.__call__; row is <<>> (None) or <<row>>
call(s0, value, row, show_link) ==
    Bind(Setup(s0), LAMBDA s :
    Bind(IF row # <<>> /\ s.table THEN RowKey(row[1]) ELSE value, LAMBDA v :
    Bind(Lookup(s, <<v>>, row), LAMBDA r :
        IF s.list_type THEN MultipleBody(s, value, row, FALSE, show_link /\ s.show_link, <<>>)
        ELSE IF ~Truthy(v) THEN Result(s, s.none, <<>>, "")
        ELSE IF r.err # "" THEN r
        ELSE Result(r.self,
                    IF v \in DOMAIN r.ret
                    THEN IF show_link /\ s.show_link THEN link(r.self, v, r.ret[v])
                         ELSE r.ret[v]
                    ELSE r.self.default,
                    r.fetched, ""))))

\* S3Represent.bulk; ord enumerates the set of values built from rows or
\* from the lists
bulk(s0, values, rows, list_type, show_link, ord) ==
    Bind(Setup(s0), LAMBDA s :
    Bind(Flatten(values, ord), LAMBDA flat :
    Bind(IF rows # <<>> /\ s.table THEN ord
         ELSE IF s.list_type /\ list_type THEN flat.values
         ELSE AsList(values),
         LAMBDA vals :
    Bind(IF rows # <<>> /\ s.table THEN [s EXCEPT !.rows = KeepRows(s.rows, rows)] ELSE s,
         LAMBDA s1 :
    Bind(Lookup(s1, vals, rows), LAMBDA r :
    Bind(IF show_link /\ s.show_link
         THEN [k \in DOMAIN r.ret |-> link(r.self, k, r.ret[k])]
         ELSE r.ret,
         LAMBDA linked :
        IF ~(rows # <<>> /\ s.table) /\ s.list_type /\ list_type /\ flat.err # ""
        THEN Result(s, EmptyMap, <<>>, flat.err)
        ELSE IF vals = <<>> THEN Result(s1, (None :> s1.none), <<>>, "")
        ELSE IF r.err # "" THEN r
        ELSE Result(r.self,
                    [k \in DOMAIN linked \cup {vals[i] : i \in 1..Len(vals)} \cup {None} |->
                        IF k = None THEN r.self.none
                        ELSE IF k \in DOMAIN linked THEN linked[k]
                        ELSE r.self.default],
                    r.fetched, "")))))))

\* the sequence a for-loop over value runs through
Iterate(value) ==
    IF value.kind = "list" THEN value.items
    ELSE [i \in 1..Len(value.txt) |-> PyStr(<<value.txt[i]>>)]

\* S3Represent.render_list: with and without links, the labels of the
\* elements of value joined by ", "; None and integers cannot be iterated
render_list(s, value, labels, show_link) ==
    IF value.kind \in {"none", "int"} THEN Result(s, <<>>, <<>>, "TypeError")
    ELSE Result(s,
                Join([i \in 1..Len(Iterate(value)) |->
                         IF Iterate(value)[i] \in DOMAIN labels
                         THEN labels[Iterate(value)[i]]
                         ELSE s.default],
                     <<", ">>),
                <<>>, "")

(* ------------------------------------------------------------------ *)
(* S3RepresentLazy                                                     *)
(* ------------------------------------------------------------------ *)
\* S3RepresentLazy.__init__: the lazy representation of value
S3RepresentLazy(value) == [value |-> value, multiple |-> FALSE]

\* a flush that hands bulk() the oldest value of the queue only
BatchFirst(s) == SubSeq(s.lazy, 1, 1)

\* represent, line 791: renderer.lazy, the argument of bulk()
Batch(s) == s.lazy

\* a flush that hands bulk() the oldest queued value only and takes it off
\* the queue
FlushFirst(s, ord) ==
    IF s.lazy # <<>>
    THEN Bind(bulk(s, PyList(<<Head(s.lazy)>>), NoRows, TRUE, TRUE,
                   IF s.list_type THEN CHOOSE o \in FlatOrders(PyList(<<Head(s.lazy)>>)) : TRUE
                   ELSE <<>>),
              LAMBDA r :
             IF r.err # "" THEN r
             ELSE Result([r.self EXCEPT !.lazy = Tail(s.lazy)], r.ret, r.fetched, ""))
    ELSE Result(s, s.theset, <<>>, "")

\* a flush that empties the queue before it calls bulk()
FlushDrain(s, ord) ==
    IF s.lazy # <<>>
    THEN Bind(bulk(s, PyList(s.lazy), NoRows, TRUE, TRUE, ord), LAMBDA r :
             Result([r.self EXCEPT !.lazy = <<>>], r.ret, r.fetched, r.err))
    ELSE Result(s, s.theset, <<>>, "")

\* a flush that writes every label bulk() returned into theset
FlushKeep(s, ord) ==
    IF s.lazy # <<>>
    THEN Bind(bulk(s, PyList(s.lazy), NoRows, TRUE, TRUE, ord), LAMBDA r :
             IF r.err # "" THEN r
             ELSE Result([r.self EXCEPT
                             !.lazy = <<>>,
                             !.theset = [k \in DOMAIN r.self.theset \cup DOMAIN r.ret |->
                                            IF k \in DOMAIN r.self.theset THEN r.self.theset[k]
                                            ELSE r.ret[k]]],
                         r.ret, r.fetched, ""))
    ELSE Result(s, s.theset, <<>>, "")

\* represent and render, lines 790-794 and 812-816: the labels of the queued
\* values from bulk(), the queue being emptied, or theset if nothing is queued
Flush(s, ord) ==
    IF s.lazy # <<>>
    THEN Bind(bulk(s, PyList(s.lazy), NoRows, TRUE, TRUE, ord), LAMBDA r :
             IF r.err # "" THEN r
             ELSE Result([r.self EXCEPT !.lazy = <<>>], r.ret, r.fetched, ""))
    ELSE Result(s, s.theset, <<>>, "")

\* the rest of represent and render after the flush f: r is what the
\* renderer gives for the value
AfterFlush(f, r) ==
    IF f.err # "" THEN f ELSE Result(r.self, r.ret, f.fetched \o r.fetched, r.err)

\* a represent() that registers the value with the queue again
represent_again(s, o, ord, ord2) ==
    Bind(Flush(s, ord), LAMBDA f :
    Bind(AfterFlush(f,
            IF o.multiple THEN multiple(f.self, o.value, NoRows, TRUE, FALSE, ord2)
            ELSE IF f.self.list_type THEN render_list(f.self, o.value, f.ret, FALSE)
            ELSE call(f.self, o.value, NoRows, FALSE)),
         LAMBDA r :
        Result([r.self EXCEPT !.lazy = Append(r.self.lazy, o.value)], r.ret, r.fetched, r.err)))

\* S3RepresentLazy.represent; ord and ord2 enumerate the sets built by
\* bulk() and multiple()
represent(s, o, ord, ord2) ==
    Bind(Flush(s, ord), LAMBDA f :
        AfterFlush(f,
            IF o.multiple THEN multiple(f.self, o.value, NoRows, TRUE, FALSE, ord2)
            ELSE IF f.self.list_type THEN render_list(f.self, o.value, f.ret, FALSE)
            ELSE call(f.self, o.value, NoRows, FALSE)))

\* S3RepresentLazy.render
render(s, o, ord, ord2) ==
    Bind(Flush(s, ord), LAMBDA f :
    Bind(IF f.self.list_type /\ ~Truthy(o.value) THEN PyList(<<>>) ELSE o.value, LAMBDA value :
        AfterFlush(f,
            IF f.self.list_type
            THEN IF o.multiple
                 THEN multiple(f.self,
                               IF value.kind = "list" /\ value.items # <<>>
                                  /\ value.items[1].kind # "list"
                               THEN PyList(<<value>>) ELSE value,
                               NoRows, TRUE, TRUE, ord2)
                 ELSE render_list(f.self, value, f.ret, TRUE)
            ELSE IF o.multiple THEN multiple(f.self, value, NoRows, TRUE, TRUE, ord2)
                 ELSE call(f.self, value, NoRows, TRUE))))

(* ------------------------------------------------------------------ *)
(* The state machine: one representer, its lookup table, its callers   *)
(* ------------------------------------------------------------------ *)
\* hierarchy=False, hierarchy=True
HierarchyOff == [on |-> FALSE, template |-> <<>>]
HierarchyOn == [on |-> TRUE, template |-> <<>>]

TableName == <<"org", "organisation">>

\* the constructor arguments of a representer of the lookup table
Config(list_type, hierarchy, show_link) ==
    [lookup |-> TableName, key |-> "", fields |-> <<>>, options |-> NoOptions,
     multiple |-> list_type, hierarchy |-> hierarchy, linkto |-> Unset,
     show_link |-> show_link, default |-> Unset, none |-> Unset,
     custom_lookup |-> FALSE]

\* the parent maps that are forests: following parents from any key ends
RECURSIVE Ends(_, _, _)
Ends(p, k, n) == IF k = 0 THEN TRUE ELSE IF n = 0 THEN FALSE ELSE Ends(p, p[k], n - 1)

Forests == {p \in [Keys -> 0..MaxKey] : \A k \in Keys : Ends(p, k, MaxKey)}

NoParents == [k \in Keys |-> 0]

\* the lookup table at the start: every key has a row of its first name;
\* rows go and names change by DbChange
AllRows == [k \in Keys |-> RowName(k, 1)]

\* the sequences over S of length at most n
RECURSIVE SeqsUpTo(_, _)
SeqsUpTo(S, n) ==
    IF n = 0 THEN {<<>>}
    ELSE SeqsUpTo(S, n - 1) \cup {Append(q, x) : q \in {q \in SeqsUpTo(S, n - 1) : Len(q) = n - 1}, x \in S}

\* the raw values callers pass: None, integer keys (0 and MaxKey + 1 never have a row), strings
IntValues == {PyInt(k) : k \in 0..(MaxKey + 1)}
StrValues == {PyStr(<<>>), PyStr(<<"x">>), PyStr(IntStr(1)), PyStr(<<"0">> \o IntStr(1))}
Scalars == {None} \cup IntValues \cup StrValues

\* the elements of the lists callers pass
ListElements == {None, PyInt(1), PyInt(MaxKey + 1)}
ListValues == {PyList(q) : q \in SeqsUpTo(ListElements, MaxLen)}

\* the values of a list-type field: of one record, and of two records
InnerLists == {PyList(q) : q \in SeqsUpTo({None, PyInt(1), PyInt(2)}, MaxLen)}
FirstLists == {PyList(<<PyInt(1), PyInt(2)>>), PyList(<<PyInt(MaxKey + 1)>>)}
SecondLists == {None, PyList(<<PyInt(2), None>>), PyList(<<PyInt(1)>>)}
ListsOfLists ==
    {PyList(<<a>>) : a \in InnerLists} \cup {PyList(<<a, b>>) : a \in FirstLists, b \in SecondLists}

\* values that are no lists of lists
BadLists ==
    {PyList(<<PyInt(1)>>), PyList(<<None, PyInt(1)>>), PyList(<<PyList(<<PyInt(2)>>), PyInt(1)>>)}

\* the rows a caller can hand in: rows of the lookup table as it is now
RowsNow == {Row(k, db[k]) : k \in {k \in Keys : db[k] # NoRow}}

\* the row lists a caller can hand in: by ascending key
RowLists ==
    {q \in SeqsUpTo(RowsNow, MaxLen) : q # <<>> /\ \A i \in 1..(Len(q) - 1) : q[i].id < q[i + 1].id}

\* what the last operation was called with and what it gave
Outcome(op, value, rows, list_type, show_link, r) ==
    [op |-> op, value |-> value, rows |-> rows, list_type |-> list_type,
     show_link |-> show_link,
     ret |-> IF op = "bulk" THEN <<>> ELSE r.ret,
     map |-> IF op = "bulk" THEN r.ret ELSE EmptyMap,
     fetched |-> r.fetched, err |-> r.err,
     queries |-> r.self.queries - (IF self.setup THEN self.queries ELSE 0)]

\* the same operation with the same arguments as the one before, the lookup
\* table unchanged in between
Same(op, value, rows, list_type, show_link) ==
    /\ last.op = op /\ last.value = value /\ last.rows = rows
    /\ last.list_type = list_type /\ last.show_link = show_link

\* the keys that were selected so far without a row being found, and that
\* have not been resolved since
Unresolved(r) ==
    LET asked == UNION {r.fetched[i] : i \in 1..Len(r.fetched)}
    IN  (unresolved \cup (asked \ DOMAIN Select(asked))) \ DOMAIN r.self.theset

Done(op, value, rows, list_type, show_link, r) ==
    /\ self.queries < MaxQueries
    /\ self' = r.self
    /\ unresolved' = Unresolved(r)
    /\ last' = Outcome(op, value, rows, list_type, show_link, r)
    /\ again' = Same(op, value, rows, list_type, show_link)
    /\ UNCHANGED <<db, schema, parent, changes, lazies, ctx>>

\* a caller invokes the representer on a value, with or without the row
Call(value, row, show_link) ==
    Done("call", value, row, FALSE, show_link, call(self, value, row, show_link))

\* a caller invokes multiple()
Multiple(values, rows, list_type, show_link, ord) ==
    Done("multiple", values, rows, list_type, show_link,
         multiple(self, values, rows, list_type, show_link, ord))

\* a caller invokes bulk()
Bulk(values, rows, list_type, show_link, ord) ==
    Done("bulk", values, rows, list_type, show_link,
         bulk(self, values, rows, list_type, show_link, ord))

NoOp == [op |-> "new", value |-> None, rows |-> <<>>, list_type |-> FALSE, show_link |-> FALSE,
         ret |-> <<>>, map |-> EmptyMap, fetched |-> <<>>, err |-> "", queries |-> 0]

\* the lookup table changes behind the representer: a row is inserted,
\* renamed or deleted
DbChange(k, name) ==
    /\ changes < MaxDbChanges
    /\ name # db[k]
    /\ db' = [db EXCEPT ![k] = name]
    /\ changes' = changes + 1
    /\ last' = [NoOp EXCEPT !.op = "db"]
    /\ again' = FALSE
    /\ UNCHANGED <<self, schema, parent, unresolved, lazies, ctx>>

\* the rendering contexts that share the representer
Contexts == {"A", "B"}

\* where each context is in represent(): idle; bulked, after line 791 with
\* its labels; ready, after line 792 or 794. obj is the lazy representation
\* it represents, own whether its labels are the result of bulk() and not
\* theset, high the number of lazy representations made when it called
\* bulk(); flushed are the lazy representations whose value was in the
\* argument of some bulk() of a flush
Idle ==
    [pc |-> [c \in Contexts |-> "idle"],
     obj |-> [c \in Contexts |-> 0],
     own |-> [c \in Contexts |-> FALSE],
     labels |-> [c \in Contexts |-> EmptyMap],
     high |-> [c \in Contexts |-> 0],
     flushed |-> {}]

FullSchema == [exists |-> TRUE, attrs |-> {"id", "name"}, hconfig |-> TRUE]

\* the representers of the lookup table: list-type or not, with or without
\* links and hierarchy, over the parent maps ps when hierarchical
InitOver(lts, sls, hs, ps) ==
    /\ \E lt \in lts, sl \in sls, h \in hs :
           /\ self = S3Represent(Config(lt, h, sl))
           /\ parent \in IF h.on THEN ps ELSE {NoParents}
    /\ db = AllRows
    /\ schema = FullSchema
    /\ last = NoOp
    /\ changes = 0
    /\ again = FALSE
    /\ unresolved = {}
    /\ lazies = <<>>
    /\ ctx = Idle

\* the orders the set built by bulk() or multiple() can be enumerated in
SetOrders(values, rows) ==
    IF rows # <<>> THEN Orders({RowKey(rows[i]) : i \in 1..Len(rows)})
    ELSE IF self.list_type THEN FlatOrders(values) ELSE {<<>>}

\* S3RepresentLazy(value, renderer): the value joins the renderer's queue
Lazy(value) ==
    /\ Len(lazies) < MaxLazy
    /\ lazies' = Append(lazies, S3RepresentLazy(value))
    /\ self' = [self EXCEPT !.lazy = Append(self.lazy, value)]
    /\ last' = [NoOp EXCEPT !.op = "lazy", !.value = value]
    /\ again' = FALSE
    /\ UNCHANGED <<db, schema, parent, changes, unresolved, ctx>>

\* the queue as bulk() takes it: a list of values, or of lists for a
\* list-type field
Queue == IF self.lazy = <<>> THEN {<<>>} ELSE SetOrders(PyList(self.lazy), NoRows)

\* a lazy representation is asked for its string
Represent(i) ==
    \E ord \in Queue :
        Done("represent", lazies[i].value, NoRows, FALSE, FALSE,
             represent(self, lazies[i], ord, <<>>))

\* a lazy representation is asked for its markup
Render(i) ==
    \E ord \in Queue :
        Done("render", lazies[i].value, NoRows, FALSE, TRUE,
             render(self, lazies[i], ord, <<>>))

\* the lazy representations whose values are in the queue: the ones made
\* since the queue was last emptied
QueueIdx == (Len(lazies) - Len(self.lazy) + 1)..Len(lazies)

\* the lazy representations whose values bulk() is called with
BatchIdx == (Len(lazies) - Len(self.lazy) + 1)..(Len(lazies) - Len(self.lazy) + Len(Batch(self)))

\* a step of a context that leaves the lookup table and the lazy
\* representations alone
Step(op, value, r) ==
    /\ self' = r.self
    /\ unresolved' = Unresolved(r)
    /\ last' = Outcome(op, value, NoRows, FALSE, FALSE, r)
    /\ again' = FALSE
    /\ UNCHANGED <<db, schema, parent, changes, lazies>>

\* a context makes a lazy representation
Construct(c, v) == ctx.pc[c] = "idle" /\ Lazy(v)

\* represent, lines 788-791 and 793-794: context c begins represent() of the
\* lazy representation i; with values queued it calls bulk(renderer.lazy),
\* otherwise its labels are theset
BulkStep(c, i) ==
    /\ ctx.pc[c] = "idle"
    /\ self.queries < MaxQueries
    /\ IF self.lazy = <<>>
       THEN /\ ctx' = [ctx EXCEPT !.pc[c] = "ready", !.obj[c] = i, !.own[c] = FALSE,
                                  !.labels[c] = EmptyMap, !.high[c] = Len(lazies)]
            /\ Step("labels", lazies[i].value, Result(self, <<>>, <<>>, ""))
       ELSE \E ord \in SetOrders(PyList(Batch(self)), NoRows) :
                Bind(bulk(self, PyList(Batch(self)), NoRows, TRUE, TRUE, ord), LAMBDA r :
                    /\ ctx' = IF r.err # "" THEN ctx
                              ELSE [ctx EXCEPT !.pc[c] = "bulked", !.obj[c] = i, !.own[c] = TRUE,
                                               !.labels[c] = r.ret, !.high[c] = Len(lazies),
                                               !.flushed = @ \cup BatchIdx]
                    /\ Step("flush", lazies[i].value, Result(r.self, <<>>, r.fetched, r.err)))

\* represent, line 792: renderer.lazy = []
ResetStep(c) ==
    /\ ctx.pc[c] = "bulked"
    /\ ctx' = [ctx EXCEPT !.pc[c] = "ready"]
    /\ Step("reset", lazies[ctx.obj[c]].value,
            Result([self EXCEPT !.lazy = <<>>], <<>>, <<>>, ""))

\* represent, lines 795-804: the value is rendered, from the labels on a
\* list-type representer and by the representer itself otherwise
FinishStep(c) ==
    /\ ctx.pc[c] = "ready"
    /\ self.queries < MaxQueries
    /\ ctx' = [ctx EXCEPT !.pc[c] = "idle", !.obj[c] = 0, !.own[c] = FALSE,
                          !.labels[c] = EmptyMap]
    /\ Step("represent", lazies[ctx.obj[c]].value,
            IF self.list_type
            THEN render_list(self, lazies[ctx.obj[c]].value,
                             IF ctx.own[c] THEN ctx.labels[c] ELSE self.theset, FALSE)
            ELSE call(self, lazies[ctx.obj[c]].value, NoRows, FALSE))

\* the callers' steps, with the default show_link=True
CallValue(S) == \E v \in S : Call(v, <<>>, TRUE)

\* the row goes with the call of a scalar representer: a list-type one would
\* hand the one row to multiple() as its list of rows (lines 396-397)
CallRow == ~self.list_type /\ \E row \in RowsNow : Call(None, <<row>>, TRUE)

MultipleValues(L) ==
    \E v \in L : \E ord \in SetOrders(v, <<>>) : Multiple(v, <<>>, TRUE, TRUE, ord)

BulkValues(L) ==
    \E v \in L : \E ord \in SetOrders(v, <<>>) : Bulk(v, <<>>, TRUE, TRUE, ord)

BulkRows ==
    \E rows \in RowLists :
        \E ord \in SetOrders(PyList(<<>>), rows) : Bulk(PyList(<<>>), rows, TRUE, TRUE, ord)

\* the rows of the keys in CK change
Change(CK) == \E k \in CK : \E name \in {NoRow, RowName(k, 1), RowName(k, 2)} : DbChange(k, name)

\* a flat, scalar representer
Init == InitOver({FALSE}, BOOLEAN, {HierarchyOff}, {NoParents})

Next ==
    \/ CallValue(Scalars)
    \/ CallRow
    \/ MultipleValues(ListValues)
    \/ BulkValues(ListValues)
    \/ BulkRows
    \/ Change({1})

Spec == Init /\ [][Next]_vars

\* a flat representer of a list-type field
InitList == InitOver({TRUE}, BOOLEAN, {HierarchyOff}, {NoParents})

NextList ==
    \/ CallValue({None} \cup ListValues)
    \/ MultipleValues(ListsOfLists \cup BadLists)
    \/ BulkValues(ListsOfLists \cup BadLists)
    \/ Change({1})

SpecList == InitList /\ [][NextList]_vars

\* a scalar representer of a hierarchical lookup table
InitHier == InitOver({FALSE}, BOOLEAN, {HierarchyOn}, Forests)

NextHier ==
    \/ CallValue(IntValues)
    \/ CallRow
    \/ BulkValues({PyList(<<PyInt(1), PyInt(MaxKey)>>)})
    \/ Change(Keys)

SpecHier == InitHier /\ [][NextHier]_vars

\* the values lazy representations are made of: keys, or lists of keys for
\* a list-type field
LazyValues ==
    IF self.list_type THEN {None, PyList(<<PyInt(1), PyInt(MaxKey + 1)>>)}
    ELSE {None, PyInt(1), PyInt(MaxKey + 1)}

\* the values of direct calls that go with lazy representations
DirectValues ==
    IF self.list_type THEN {PyList(<<PyInt(1), PyInt(2)>>)} ELSE {PyInt(1), PyInt(MaxKey)}

\* the parent chain MaxKey -> ... -> 2 -> 1
Chain == [k \in Keys |-> k - 1]

\* representers with lazy representations and direct calls, over a lookup
\* table whose rows change
InitLazy ==
    \/ InitOver(BOOLEAN, {TRUE}, {HierarchyOff}, {NoParents})
    \/ InitOver({FALSE}, {TRUE}, {HierarchyOn}, {Chain})

NextLazy ==
    \/ \E v \in LazyValues : Lazy(v)
    \/ \E i \in 1..Len(lazies) : Represent(i)
    \/ \E i \in 1..Len(lazies) : Render(i)
    \/ CallValue(DirectValues)
    \/ \E v \in DirectValues : Multiple(PyList(<<v>>), NoRows, TRUE, TRUE, Iterate(v))
    \/ \E v \in DirectValues : Bulk(PyList(<<v>>), NoRows, TRUE, TRUE, Iterate(v))
    \/ CallRow
    \/ Change({1})

SpecLazy == InitLazy /\ [][NextLazy]_vars

\* the values of the lazy representations of one batch
BatchValues ==
    IF self.list_type
    THEN {None, PyList(<<PyInt(1), PyInt(2)>>), PyList(<<PyInt(2), PyInt(MaxKey + 1)>>)}
    ELSE {None, PyInt(1), PyInt(2), PyInt(MaxKey + 1)}

\* lazy representations that are all made before the first of them is
\* rendered, as for the rows of one table
NextBatch ==
    \/ ~self.setup /\ \E v \in BatchValues : Lazy(v)
    \/ \E i \in 1..Len(lazies) : Represent(i)
    \/ \E i \in 1..Len(lazies) : Render(i)

SpecBatch == InitLazy /\ [][NextBatch]_vars

\* any of these representers
InitAll == InitList \/ Init \/ InitOver({FALSE}, {FALSE}, {HierarchyOn}, Forests)

NextAll ==
    \/ self.list_type /\ NextList
    \/ ~self.list_type /\ ~self.hierarchy.on /\ Next
    \/ self.hierarchy.on /\ NextHier

SpecAll == InitAll /\ [][NextAll]_vars

\* the constructor arguments with a key, display fields and options
ConfigWith(list_type, show_link, key, fields, options) ==
    [Config(list_type, HierarchyOff, show_link) EXCEPT
        !.key = key, !.fields = fields, !.options = options]

\* options={1: "One"}
Options == [none |-> FALSE, map |-> Put(EmptyMap, PyInt(1), <<"One">>)]

\* the lookup name is not known to s3db: the rows are in the database, but
\* s3db.table() returns None
NoTable == [FullSchema EXCEPT !.exists = FALSE]

\* flat representers of the configurations cfgs over the schemas
InitWith(cfgs, schemas) ==
    /\ \E cfg \in cfgs : self = S3Represent(cfg)
    /\ schema \in schemas
    /\ parent = NoParents
    /\ db = AllRows
    /\ last = NoOp
    /\ changes = 0
    /\ again = FALSE
    /\ unresolved = {}
    /\ lazies = <<>>
    /\ ctx = Idle

\* representers whose lookup table cannot be resolved, with and without
\* options
InitNoTable ==
    InitWith({ConfigWith(lt, sl, "", <<>>, o) :
                 lt \in BOOLEAN, sl \in BOOLEAN, o \in {NoOptions, Options}}, {NoTable})

NextNoTable ==
    \/ self.list_type /\ NextList
    \/ ~self.list_type /\ Next

SpecNoTable == InitNoTable /\ [][NextNoTable]_vars

\* representers whose configured key field "code" is no attribute of the
\* lookup table
InitNoKey ==
    InitWith({ConfigWith(lt, sl, "code", <<>>, NoOptions) : lt \in BOOLEAN, sl \in BOOLEAN},
             {FullSchema})

\* lookups by value, the lookup table changing in between
NextNoKey ==
    \/ CallValue(IF self.list_type THEN {None} \cup ListValues ELSE Scalars)
    \/ MultipleValues(IF self.list_type THEN ListsOfLists ELSE ListValues)
    \/ BulkValues(IF self.list_type THEN ListsOfLists ELSE ListValues)
    \/ Change({1})

SpecNoKey == InitNoKey /\ [][NextNoKey]_vars

\* representers configured with the display fields name and acronym, of
\* which the lookup table has the first only
InitNoField ==
    InitWith({ConfigWith(lt, sl, "", <<"name", "acronym">>, NoOptions) :
                 lt \in BOOLEAN, sl \in BOOLEAN}, {FullSchema})

NextNoField ==
    \/ self.list_type /\ NextList
    \/ ~self.list_type /\ Next

SpecNoField == InitNoField /\ [][NextNoField]_vars

\* a caller (a subclass, a widget) invokes link(k, v) itself; the arguments
\* are recorded as the list [k, v]
Link(k, v) ==
    Done("link", PyList(<<k, PyStr(v)>>), NoRows, FALSE, FALSE,
         Result(self, link(self, k, v), <<>>, ""))

\* a link template given to the constructor
LinkTo == <<"/", "org", "/", "[id]">>

\* scalar representers with and without links: linkto left at None, given
\* as the empty string, or given as a template
InitLink ==
    InitWith({[Config(FALSE, HierarchyOff, sl) EXCEPT !.linkto = lt] :
                 sl \in BOOLEAN, lt \in {Unset, <<>>, LinkTo}}, {FullSchema})

NextLink ==
    \/ \E k \in {None, PyInt(1), PyStr(<<"x">>)} : \E v \in {<<>>, <<"N1">>} : Link(k, v)
    \/ CallValue({PyInt(1), PyInt(MaxKey + 1)})
    \/ CallRow
    \/ Lazy(PyInt(2))
    \/ \E i \in 1..Len(lazies) : Represent(i)
    \/ Change({1})

SpecLink == InitLink /\ [][NextLink]_vars

\* representers constructed with options, with and without the name of a
\* lookup table
InitOptions ==
    InitWith({[ConfigWith(lt, sl, "", <<>>, Options) EXCEPT !.lookup = name] :
                 lt \in BOOLEAN, sl \in BOOLEAN, name \in {<<>>, TableName}}, {FullSchema})

NextOptions ==
    \/ self.list_type /\ NextList
    \/ ~self.list_type /\ Next

SpecOptions == InitOptions /\ [][NextOptions]_vars

\* the empty field values, and one value that is not empty
EmptyValues == {None, PyList(<<>>)}
FieldValues == EmptyValues \cup {IF self.list_type THEN PyList(<<PyInt(1)>>) ELSE PyInt(1)}

\* flat representers, scalar and list-type, with and without links
InitEmpty == InitOver(BOOLEAN, BOOLEAN, {HierarchyOff}, {NoParents})

\* field values, empty ones among them, rendered directly and lazily
NextEmpty ==
    \/ CallValue(FieldValues)
    \/ MultipleValues(FieldValues)
    \/ \E v \in FieldValues : Lazy(v)
    \/ \E i \in 1..Len(lazies) : Represent(i)
    \/ \E i \in 1..Len(lazies) : Render(i)

SpecEmpty == InitEmpty /\ [][NextEmpty]_vars

\* the parent maps with a cycle: malformed hierarchies
Cycles == [Keys -> 0..MaxKey] \ Forests

\* a scalar representer of a lookup table whose hierarchy has a cycle
InitCycle == InitOver({FALSE}, BOOLEAN, {HierarchyOn}, Cycles)

\* lookups by value, a row changing in between
NextCycle ==
    \/ CallValue(IntValues)
    \/ BulkValues({PyList(<<PyInt(1), PyInt(MaxKey)>>)})
    \/ Change({1})

SpecCycle == InitCycle /\ [][NextCycle]_vars

\* lists in which a key comes as an integer and as strings that int() accepts
MixedValues == {PyInt(1), PyStr(IntStr(1)), PyStr(<<"0">> \o IntStr(1)), PyInt(2)}
MixedLists == {PyList(q) : q \in SeqsUpTo(MixedValues, MaxLen)}

\* a flat, scalar representer is given lists of mixed raw values
NextMixed ==
    \/ BulkValues(MixedLists)
    \/ CallValue({PyInt(1)})
    \/ Change({1})

SpecMixed == Init /\ [][NextMixed]_vars

\* the values of lazy representations, well-formed and malformed: a key
\* where the field holds lists, a list where it holds keys
FlushValues == {PyInt(1), PyList(<<PyInt(1)>>)}

\* representers whose flush can raise: the queue can hold a malformed
\* value, or the rows lack the configured display field acronym
InitFlush ==
    \/ InitOver(BOOLEAN, {TRUE}, {HierarchyOff}, {NoParents})
    \/ InitWith({ConfigWith(lt, TRUE, "", <<"name", "acronym">>, NoOptions) : lt \in BOOLEAN},
                {FullSchema})

NextFlush ==
    \/ \E v \in FlushValues : Lazy(v)
    \/ \E i \in 1..Len(lazies) : Represent(i)
    \/ \E i \in 1..Len(lazies) : Render(i)
    \/ Change({1})

SpecFlush == InitFlush /\ [][NextFlush]_vars

\* the values of lazy representations of one table column: keys with and
\* without a row, keys given as strings, None, alone or in lists
DrainValues ==
    IF self.list_type
    THEN {PyList(<<PyInt(1), None>>), PyList(<<PyInt(MaxKey + 1)>>), PyList(<<PyStr(IntStr(1))>>)}
    ELSE {None, PyInt(1), PyInt(MaxKey + 1), PyStr(IntStr(1))}

\* lazy representations that are represented one after the other: the first
\* flushes the queue, the others find it drained
NextDrain ==
    \/ \E v \in DrainValues : Lazy(v)
    \/ \E i \in 1..Len(lazies) : Represent(i)
    \/ \E i \in 1..Len(lazies) : Render(i)
    \/ Change({1})

SpecDrain == InitEmpty /\ [][NextDrain]_vars

\* the values the contexts make lazy representations of
SharedValues == {None, PyInt(1), PyInt(2), PyInt(MaxKey + 1)}

\* two rendering contexts use one flat, scalar representer, their steps
\* interleaving
NextShared ==
    \/ \E c \in Contexts : \E v \in SharedValues : Construct(c, v)
    \/ \E c \in Contexts : \E i \in 1..Len(lazies) : BulkStep(c, i)
    \/ \E c \in Contexts : ResetStep(c)
    \/ \E c \in Contexts : FinishStep(c)

SpecShared == Init /\ [][NextShared]_vars

(* ------------------------------------------------------------------ *)
(* Properties                                                          *)
(* ------------------------------------------------------------------ *)
\* the keys of the only select of the last operation
Fetched == IF last.fetched = <<>> THEN {} ELSE last.fetched[1]

\* C1: no operation (__call__, multiple, bulk, each one _lookup) makes more
\* than one select through lookup_rows, however many keys it asks for,
\* whatever is cached, with or without hierarchy and known rows
C1_AtMostOneFetch == Len(last.fetched) <= 1 /\ last.queries <= 1

\* C1 witness: one select has served several pending keys
C1_Witness ==
    /\ last.op \in {"call", "multiple", "bulk"}
    /\ Len(last.fetched) = 1 /\ last.queries = 1
    /\ Cardinality(Fetched) >= 2

\* the step is the same __call__(v) a second time in a row on a representer
\* that is not list-type, the lookup table being unchanged
SecondCall ==
    /\ ~self.list_type
    /\ last.op = "call" /\ last'.op = "call"
    /\ last'.value = last.value /\ last.rows = <<>> /\ last'.rows = <<>>
    /\ last'.show_link = last.show_link

\* the lookup table has a row for the lookup key of the raw value v
HasRow(v) ==
    LET k == LookupKey(Setup(self), v)
    IN  k.kind = "int" /\ k.num \in DOMAIN db /\ db[k.num] # NoRow

Asked(l) == {l.value.items[i] : i \in 1..Len(l.value.items)}

\* the label of the row of key v in the lookup table: its name
RowLabel(v) == <<db[v.num]>>

\* the link the representer of TableName makes of label l for key k
LinkOf(k, l) == A(l, <<"/", TableName[1], "/", TableName[2], "/">> \o s3_unicode(k))

\* the step is bulk(values) on a representer that is not list-type, has its
\* lookup table and has nothing cached
BulkOnEmptyCache ==
    /\ last'.op = "bulk" /\ last'.rows = <<>>
    /\ ~self.list_type /\ Setup(self).table /\ Setup(self).theset = EmptyMap

\* C3 as stated: bulk(values) on an empty cache maps each value with a row
\* to the row's label, each value without a row to the default label and
\* None to the none label, and makes exactly one select, for the set of
\* the requested values
C3_Original ==
    [][BulkOnEmptyCache =>
          /\ \A v \in Asked(last') \ {None} :
                 /\ v \in DOMAIN last'.map
                 /\ last'.map[v] = IF HasRow(v) THEN RowLabel(v) ELSE self'.default
          /\ None \in DOMAIN last'.map /\ last'.map[None] = self'.none
          /\ last'.fetched = <<Asked(last')>>]_vars

\* C3 amended: bulk(values) on an empty cache of a flat representer, values
\* being integer keys or None, maps each key with a row to the row's label
\* and each key without a row to the default label, both made links when
\* links are shown, and None to the bare none label; it makes exactly one
\* select, for the requested keys other than None, if there is such a key,
\* and no select otherwise
C3_Bulk ==
    [][BulkOnEmptyCache /\ ~self.hierarchy.on
        /\ (\A v \in Asked(last') : v.kind \in {"int", "none"}) =>
          /\ last'.err = ""
          /\ \A v \in Asked(last') \ {None} :
                 /\ v \in DOMAIN last'.map
                 /\ LET l == IF HasRow(v) THEN RowLabel(v) ELSE self'.default
                    IN  last'.map[v] = IF self'.show_link THEN LinkOf(v, l) ELSE l
          /\ None \in DOMAIN last'.map /\ last'.map[None] = self'.none
          /\ last'.fetched = IF Asked(last') \ {None} = {} THEN <<>>
                             ELSE <<Asked(last') \ {None}>>]_vars

\* C3 witness: the first select of a representer was made by bulk() for a
\* key with a row and a key without one
C3_Witness ==
    /\ last.op = "bulk" /\ last.rows = <<>> /\ ~self.list_type /\ ~self.show_link
    /\ self.queries = 1 /\ last.queries = 1
    /\ Asked(last) = {PyInt(1), PyInt(MaxKey + 1)}
    /\ Fetched = Asked(last)
    /\ last.map[PyInt(1)] = RowLabel(PyInt(1))
    /\ last.map[PyInt(MaxKey + 1)] = self.default
    /\ DOMAIN self.theset = {PyInt(1)}

\* the raw scalar values the operation l asked a label for
Requested(l) ==
    IF l.rows # <<>> THEN {RowKey(l.rows[i]) : i \in 1..Len(l.rows)}
    ELSE IF l.op # "call" /\ self.list_type /\ l.list_type
         THEN IF NotListOfLists(l.value) THEN {} ELSE FlatSet(NotNone(l.value)) \cup
                  (IF \E i \in 1..Len(l.value.items) : l.value.items[i] = None THEN {None} ELSE {})
    ELSE {AsList(l.value)[i] : i \in 1..Len(AsList(l.value))}

RECURSIVE Split(_, _)
\* the labels that were joined with ", " into ret; piece is the one being read
Split(ret, piece) ==
    IF ret = <<>> THEN <<piece>>
    ELSE IF Head(ret) = ", " THEN <<piece>> \o Split(Tail(ret), <<>>)
    ELSE Split(Tail(ret), Append(piece, Head(ret)))

\* the operation l returned the label lbl for the raw value v: as its result,
\* as one of the joined labels, or under v in the mapping
Yields(l, v, lbl) ==
    CASE l.op = "bulk" -> v \in DOMAIN l.map /\ l.map[v] = lbl
      [] l.op = "call" /\ ~self.list_type -> l.ret = lbl
      [] OTHER -> \E i \in 1..Len(Split(l.ret, <<>>)) : Split(l.ret, <<>>)[i] = lbl

\* the last operation asked for v and the select returned no row for its key
Unknown(v) ==
    /\ last.op \in {"call", "multiple", "bulk"}
    /\ v \in Requested(last)
    /\ LookupKey(self, v) \in Fetched
    /\ ~HasRow(v)

\* C4: a requested key for which the select returns no row gets the
\* configured default label, no error is raised, and the key is not put
\* into theset
C4_UnknownKey ==
    \A v \in Scalars \cup ListElements :
        Unknown(v) =>
            /\ last.err = ""
            /\ LookupKey(self, v) \notin DOMAIN self.theset
            /\ Yields(last, v, self.default)

\* the operation l looked the raw value v up by its key: it was called with
\* values only, and v is neither None nor a falsy argument of __call__
LooksUp(l, v) ==
    /\ l.op \in {"call", "multiple", "bulk"}
    /\ l.rows = <<>> /\ l.err = ""
    /\ v \in Requested(l)
    /\ v # None
    /\ (l.op = "call" /\ ~self.list_type) => Truthy(v)

C6_Monotone ==
    [][self.setup =>
          \A k \in DOMAIN self.theset :
              k \in DOMAIN self'.theset /\ self'.theset[k] = self.theset[k]]_vars

\* C6: a lazy representation has flushed the queue with a select while key 1
\* was cached under the name its row had before it was renamed
C6_Witness ==
    /\ last.op \in {"represent", "render"}
    /\ Len(last.fetched) >= 1
    /\ db[1] = RowName(1, 2)
    /\ PyInt(1) \in DOMAIN self.theset
    /\ self.theset[PyInt(1)] = <<RowName(1, 1)>>
    /\ PyInt(1) \in Requested(last)

RECURSIVE PathOf(_)
\* the parent chain of key k, root first
PathOf(k) == IF parent[k] = 0 THEN <<k>> ELSE Append(PathOf(parent[k]), k)

\* the flat labels of the parent chain of k, root first, joined by " > "
PathLabel(k) == Join([i \in 1..Len(PathOf(k)) |-> <<db[PathOf(k)[i]]>>], <<" > ">>)

\* the step is __call__(k0), without a row, on a hierarchical representer
\* that has nothing cached, every key of the parent chain of k0 having a row
ChainLookup(k0) ==
    /\ last'.op = "call" /\ last'.rows = <<>> /\ last'.value = PyInt(k0)
    /\ self.hierarchy.on /\ Setup(self).theset = EmptyMap
    /\ \A i \in 1..Len(PathOf(k0)) : db[PathOf(k0)[i]] # NoRow

\* C7: looking up k0 alone on an empty cache makes exactly one select, for
\* the keys of the whole parent chain of k0, and returns the flat labels of
\* the chain joined root first by " > " (made a link to k0 when the
\* representer shows links)
C7_Path ==
    [][\A k0 \in Keys :
           ChainLookup(k0) =>
               /\ last'.err = ""
               /\ last'.fetched = <<{PyInt(PathOf(k0)[i]) : i \in 1..Len(PathOf(k0))}>>
               /\ last'.ret = IF self.show_link /\ last'.show_link
                               THEN LinkOf(PyInt(k0), PathLabel(k0))
                               ELSE PathLabel(k0)]_vars

\* C7: the first select of a representer was for the chain 3 -> 2 -> 1 and
\* gave the path of key 3
C7_Witness ==
    /\ last.op = "call" /\ last.value = PyInt(3) /\ last.rows = <<>>
    /\ self.hierarchy.on /\ ~self.show_link /\ self.queries = 1
    /\ parent[3] = 2 /\ parent[2] = 1 /\ parent[1] = 0
    /\ last.fetched = <<{PyInt(1), PyInt(2), PyInt(3)}>>
    /\ last.ret = <<db[1], " > ", db[2], " > ", db[3]>>

\* the last operation was called with values only and raised nothing
ByValue ==
    last.op \in {"call", "multiple", "bulk"} /\ last.rows = <<>> /\ last.err = ""

\* C8: __call__(None) returns the none label; a None in the list given to
\* multiple() gives the none label at its position (among the joined labels
\* when the lists of a list-type field are flattened); None is in the key set
\* of no select, and a request for None alone makes no select
C8_None ==
    /\ (ByValue /\ last.op = "call" /\ last.value = None) => last.ret = self.none
    /\ (ByValue /\ last.op = "multiple" /\ ~self.list_type) =>
           \A i \in 1..Len(AsList(last.value)) :
               AsList(last.value)[i] = None => Split(last.ret, <<>>)[i] = self.none
    /\ (ByValue /\ last.op = "multiple" /\ self.list_type /\ None \in Requested(last)) =>
           Yields(last, None, self.none)
    /\ None \notin Fetched
    /\ (ByValue /\ Requested(last) = {None}) => last.fetched = <<>>

\* the label the representer holds for the raw value v
LabelNow(v) ==
    IF v = None THEN self.none
    ELSE IF LookupKey(self, v) \in DOMAIN self.theset THEN self.theset[LookupKey(self, v)]
    ELSE self.default

\* the label of v as the last operation shows it: a link when links are shown
Shown(v) == IF self.show_link /\ last.show_link THEN LinkOf(v, LabelNow(v)) ELSE LabelNow(v)

\* the last operation was multiple() on the lists of a list-type field
MultipleOfLists ==
    ByValue /\ last.op = "multiple" /\ self.list_type /\ last.list_type

RECURSIVE RowByRow(_)
\* the elements of the lists in rows, list after list, each list in its order
RowByRow(rows) ==
    IF rows = <<>> THEN <<>> ELSE Iterate(Head(rows)) \o RowByRow(Tail(rows))

\* does the outer list of the last operation hold a None
HasNone == \E i \in 1..Len(last.value.items) : last.value.items[i] = None

\* C9 as stated: multiple() gives every row's list its own joined labels, in
\* the order of the elements of that list: the labels in the result are,
\* list after list, those of the elements of each list
C9_Original ==
    (MultipleOfLists /\ RowByRow(NotNone(last.value)) # <<>>) =>
        Split(last.ret, <<>>) =
            [i \in 1..Len(RowByRow(NotNone(last.value))) |->
                Shown(RowByRow(NotNone(last.value))[i])]

\* C9 amended: multiple() on the lists of a list-type field returns one
\* joined string for all the lists together: the labels of the distinct
\* elements of all the lists, each once, in some order of enumeration of
\* that set, then the none label if one of the lists is None; it is the none
\* label alone when there is no element at all
C9_Joined ==
    MultipleOfLists =>
        \E ord \in Orders(FlatSet(NotNone(last.value))) :
            LET vals == IF HasNone THEN Append(ord, None) ELSE ord
            IN  last.ret = IF vals = <<>> THEN self.none
                           ELSE Join([i \in 1..Len(vals) |-> Shown(vals[i])], <<", ">>)

\* C9: multiple([[1, 2], [2, None]]) has given three labels, that of None last
C9_Witness ==
    /\ MultipleOfLists
    /\ last.value = PyList(<<PyList(<<PyInt(1), PyInt(2)>>), PyList(<<PyInt(2), None>>)>>)
    /\ Len(Split(last.ret, <<>>)) = 3
    /\ Split(last.ret, <<>>)[3] = Shown(None)

\* the step is multiple() or bulk() on the lists of a list-type field
OfLists ==
    /\ last'.op \in {"multiple", "bulk"} /\ last'.rows = <<>> /\ last'.err = ""
    /\ self.list_type /\ last'.list_type

\* the keys of the elements of the lists that are not None and not cached
Uncached(value) ==
    {LookupKey(Setup(self), v) : v \in FlatSet(NotNone(value)) \ {None}}
        \ DOMAIN Setup(self).theset

\* C10: multiple() and bulk() on the lists of a list-type field make at most
\* one select, and its key set is the set of the elements of all the lists
\* that are not None and not yet cached
C10_OneFetch ==
    [][OfLists =>
          last'.fetched = IF Uncached(last'.value) = {} THEN <<>>
                          ELSE <<Uncached(last'.value)>>]_vars

\* C10: multiple() or bulk() of [[1, 2], [2, None]] was the first select of
\* the representer, for the keys 1 and 2
C10_Witness ==
    /\ last.op \in {"multiple", "bulk"} /\ self.list_type /\ last.list_type
    /\ last.value = PyList(<<PyList(<<PyInt(1), PyInt(2)>>), PyList(<<PyInt(2), None>>)>>)
    /\ self.queries = 1
    /\ last.fetched = <<{PyInt(1), PyInt(2)}>>

\* the step is represent() or render() of a lazy representation
Rendering == last'.op \in {"represent", "render"}

\* the keys of the queued values that are not cached
QueueKeys ==
    {LookupKey(Setup(self), v) :
        v \in (IF self.list_type THEN FlatSet(NotNone(PyList(self.lazy)))
               ELSE {self.lazy[i] : i \in 1..Len(self.lazy)}) \ {None}}
        \ DOMAIN Setup(self).theset

C13_OneWay ==
    [][/\ last'.op = "lazy" =>
              /\ self'.lazy = Append(self.lazy, last'.value)
              /\ lazies' = Append(lazies, S3RepresentLazy(last'.value))
       /\ last'.op # "lazy" =>
              /\ lazies' = lazies
              /\ self'.lazy = self.lazy \/ (Rendering /\ self'.lazy = <<>>)]_vars

\* C13: a lazy representation has been rendered a second time in a row, and
\* the queue is still empty
C13_Witness ==
    /\ last.op \in {"represent", "render"} /\ again
    /\ self.setup /\ self.lazy = <<>>
    /\ \E i \in 1..Len(lazies) : lazies[i].value = last.value

\* C14: every entry point has run _setup when it is done, and once the
\* representer is set up a further _setup changes no field of it: no later
\* step resets theset, rows, the queries counter or the default and none
\* labels, nor any of the parameters resolved at setup
C14_SetupOnce ==
    [][/\ last'.op \in {"call", "multiple", "bulk", "represent", "render"} => self'.setup
       /\ Setup(Setup(self)) = Setup(self)
       /\ self.setup =>
              /\ Setup(self) = self
              /\ self'.setup
              /\ self'.queries >= self.queries
              /\ DOMAIN self.theset \subseteq DOMAIN self'.theset
              /\ DOMAIN self.rows \subseteq DOMAIN self'.rows
              /\ self'.default = self.default /\ self'.none = self.none
              /\ self'.table = self.table /\ self'.key = self.key
              /\ self'.fields = self.fields /\ self'.linkto = self.linkto
              /\ self'.htemplate = self.htemplate]_vars

\* C14: a call after the first select was served from theset, the counter
\* and the cache being kept
C14_Witness ==
    /\ last.op \in {"call", "multiple", "bulk"} /\ last.err = ""
    /\ last.fetched = <<>> /\ self.queries = 1
    /\ \E v \in Requested(last) : v # None /\ LookupKey(self, v) \in DOMAIN self.theset

Pending(l, v) ==
    /\ l.op \in {"call", "multiple", "bulk"}
    /\ l.rows = <<>>
    /\ v \in Requested(l)
    /\ v # None
    /\ (l.op = "call" /\ ~self.list_type) => Truthy(v)
    /\ LookupKey(self, v) \notin DOMAIN self.theset

\* C16: when the configured key field is no attribute of the lookup table, a
\* lookup with pending keys raises an error to the caller instead of
\* returning labels
C16_MissingKey ==
    (/\ self.setup /\ self.table /\ self.key \notin schema.attrs
     /\ \E v \in Scalars \cup ListElements : Pending(last, v))
        => last.err # ""

\* C17: when a configured display field is no attribute of the lookup table,
\* an operation that selects rows does not raise, and every row the select
\* returned for a requested key has a label afterwards
C17_MissingField ==
    \A v \in Scalars \cup ListElements :
        (/\ last.op \in {"call", "multiple", "bulk"}
         /\ self.setup /\ ~HasFields(self)
         /\ v \in Requested(last)
         /\ LookupKey(self, v) \in Fetched
         /\ HasRow(v))
            => /\ last.err = ""
               /\ LookupKey(self, v) \in DOMAIN self.theset

\* the list given to multiple() or bulk() holds an element that is neither
\* None nor iterable
HasScalar(value) ==
    value.kind = "list" /\ \E i \in 1..Len(value.items) : value.items[i].kind = "int"

\* C18: on a list-type representer, multiple() or bulk() of a list with an
\* element that is neither None nor iterable raises ValueError, makes no
\* select, and leaves theset and rows as they were (as _setup made them, at
\* the first use)
C18_ValueError ==
    [][(/\ last'.op \in {"multiple", "bulk"}
        /\ self.list_type /\ last'.list_type /\ last'.rows = <<>>
        /\ HasScalar(last'.value))
           => /\ last'.err = "ValueError"
              /\ last'.fetched = <<>>
              /\ self' = Setup(self)]_vars

\* C18: bulk() of [[2], 1] has raised ValueError on a list-type representer
\* that has labels and rows cached and key 2 not among them
C18_Witness ==
    /\ self.list_type /\ self.queries >= 1
    /\ DOMAIN self.theset # {} /\ DOMAIN self.rows # {}
    /\ PyInt(2) \notin DOMAIN self.theset
    /\ last.op = "bulk" /\ last.err = "ValueError"
    /\ last.value = PyList(<<PyList(<<PyInt(2)>>), PyInt(1)>>)

\* C19: link(k, v) leaves theset, rows, the queue of lazy representations
\* and the number of selects as they are, and returns v itself when the
\* representer has no link template
C19_Link ==
    [][last'.op = "link" =>
          /\ self'.theset = self.theset /\ self'.rows = self.rows
          /\ self'.lazy = self.lazy /\ lazies' = lazies
          /\ self'.queries = self.queries /\ last'.fetched = <<>>
          /\ self' = self
          /\ (self.linkto \in {Unset, <<>>}) => last'.ret = last'.value.items[2].txt]_vars

\* C19: link(1, "N1") has returned "N1" on a representer without link
\* template that has a label cached, a row kept, a select made and a lazy
\* representation in its queue
C19_Witness ==
    /\ last.op = "link" /\ last.value = PyList(<<PyInt(1), PyStr(<<"N1">>)>>)
    /\ last.ret = <<"N1">>
    /\ self.setup /\ self.linkto = Unset
    /\ DOMAIN self.theset # {} /\ DOMAIN self.rows # {}
    /\ self.queries >= 1 /\ self.lazy # <<>>

\* C20: a representer constructed with options, with or without the name of
\* a lookup table, makes no select for any value, and a value that is looked
\* up and is not in options gets the default label
C20_OptionsOnly ==
    (self.setup /\ ~self.options.none) =>
        /\ last.fetched = <<>>
        /\ self.queries = 0
        /\ \A v \in Scalars \cup ListElements :
               (LooksUp(last, v) /\ LookupKey(self, v) \notin DOMAIN self.options.map)
                   => Yields(last, v, self.default)

\* C21: an empty field value, None or the empty list, rendered by __call__,
\* multiple(), or the represent() or render() of a lazy representation, on
\* a scalar or a list-type representer, gives the none label and no error
C21_Empty ==
    (last.op \in {"call", "multiple", "represent", "render"} /\ last.value \in EmptyValues)
        => (last.err = "" /\ last.ret = self.none)

\* the lookup key of the raw value v is in theset when the step begins
Cached(v) == v # None /\ LookupKey(Setup(self), v) \in DOMAIN Setup(self).theset

\* the label theset holds for v when the step begins, as the step shows it
CachedLabel(v) ==
    IF last'.show_link /\ self.show_link
    THEN LinkOf(v, Setup(self).theset[LookupKey(Setup(self), v)])
    ELSE Setup(self).theset[LookupKey(Setup(self), v)]

\* C22: no select of __call__, multiple or bulk is made for a key that was
\* in theset when the operation began; a requested key that was in theset
\* gets the label theset held for it; and when every requested key other
\* than None was in theset, no select is made
C22_Partition ==
    [][last'.op \in {"call", "multiple", "bulk"} =>
          /\ \A i \in 1..Len(last'.fetched) :
                 last'.fetched[i] \cap DOMAIN Setup(self).theset = {}
          /\ \A v \in Requested(last') :
                 (Cached(v) /\ last'.err = "") => Yields(last', v, CachedLabel(v))
          /\ (\A v \in Requested(last') \ {None} : Cached(v)) => last'.fetched = <<>>]_vars

\* C22: bulk([1, MaxKey + 1]) with key 1 cached has selected MaxKey + 1 only
C22_Witness ==
    /\ last.op = "bulk" /\ last.err = ""
    /\ Requested(last) = {PyInt(1), PyInt(MaxKey + 1)}
    /\ self.queries = 2
    /\ last.fetched = <<{PyInt(MaxKey + 1)}>>
    /\ PyInt(1) \in DOMAIN self.theset

\* the keys of the rows the caller gave to the step
GivenKeys == {RowKey(last'.rows[i]) : i \in 1..Len(last'.rows)}

\* the keys that were cached when the select of the step was made: those
\* cached when the step began and those of the rows the caller gave
Known == DOMAIN Setup(self).theset \cup GivenKeys

\* C23: on a hierarchical representer of a table with a hierarchy, the key
\* set of a select is closed under parent-of up to the cached keys: the
\* parent of each of its keys is None, cached, or in the set; and the label
\* made for a selected key whose parent has a row is the parent's cached
\* label, the separator and the row's own label: no parent was missing
C23_Closed ==
    [][(last'.op \in {"call", "multiple", "bulk"} /\ self.hierarchy.on /\ schema.hconfig) =>
          \A i \in 1..Len(last'.fetched) : \A k \in last'.fetched[i] :
              /\ \/ ~Truthy(HParent(k))
                 \/ HParent(k) \in Known
                 \/ HParent(k) \in last'.fetched[i]
              /\ (/\ k \in DOMAIN self'.theset /\ k \notin Known
                  /\ Truthy(HParent(k)) /\ db[HParent(k).num] # NoRow)
                     => /\ HParent(k) \in DOMAIN self'.theset
                        /\ self'.theset[k] =
                               Format(self'.htemplate, <<self'.theset[HParent(k)], RowLabel(k)>>)]_vars

\* C23: with key 1 cached, the lookup of key 3 of the chain 3 -> 2 -> 1
\* selected the keys 3 and 2 and made the path of 3 from the labels of 1
\* and 2
C23_Witness ==
    /\ self.hierarchy.on /\ last.op = "call" /\ last.value = PyInt(3) /\ last.rows = <<>>
    /\ parent[3] = 2 /\ parent[2] = 1 /\ parent[1] = 0
    /\ self.queries = 2
    /\ last.fetched = <<{PyInt(2), PyInt(3)}>>
    /\ {PyInt(1), PyInt(2), PyInt(3)} \subseteq DOMAIN self.theset

\* the keys that have a row, and the rows a select of all of them returns
RowsOf(K) == {PyInt(k) : k \in {k \in K : db[k] # NoRow}}

\* C24: on a forest, every hierarchical lookup returns; lookup_parent, begun
\* at any key, enqueues at most as many keys as the key has ancestors, one
\* per recursive call; and _represent_path of any key, begun on the cache
\* as it is with every row fetched, returns within as many nested calls as
\* the key has ancestors
C24_Terminates ==
    /\ last.err # "RuntimeError"
    /\ \A k \in Keys :
           Cardinality(DOMAIN lookup_parent(Setup(self), (PyInt(k) :> TRUE), PyInt(k)))
               <= Len(PathOf(k))
    /\ \A k \in Keys :
           db[k] # NoRow =>
               represent_path(Setup(self), Setup(self).theset, PyInt(k), Row(k, db[k]),
                              Select(RowsOf(Keys)), Len(PathOf(k)) - 1).ok

\* C24: the path of key 3 of the chain 3 -> 2 -> 1 has been made on an empty
\* cache, from the rows of one select
C24_Witness ==
    /\ self.hierarchy.on /\ last.op = "call" /\ last.value = PyInt(3) /\ last.err = ""
    /\ parent[3] = 2 /\ parent[2] = 1 /\ parent[1] = 0
    /\ self.queries = 1 /\ Len(last.fetched) = 1
    /\ Cardinality(DOMAIN self.theset) = 3

RECURSIVE Up(_, _)
\* the keys in K and their ancestors, n parent steps up
Up(K, n) ==
    IF n = 0 THEN K ELSE Up(K \cup ({parent[k] : k \in K} \ {0}), n - 1)

\* key k is its own ancestor
OnCycle(k) == parent[k] # 0 /\ k \in Up({parent[k]}, MaxKey)

\* the step looks key k up by value, and the parent chain of k runs into a
\* cycle, every key on the way and on the cycle being uncached and having
\* a row
IntoCycle(k) ==
    /\ last'.op \in {"call", "bulk"} /\ last'.rows = <<>>
    /\ self.hierarchy.on /\ schema.hconfig
    /\ PyInt(k) \in Requested(last')
    /\ \E c \in Up({k}, MaxKey) : OnCycle(c)
    /\ \A a \in Up({k}, MaxKey) : PyInt(a) \notin DOMAIN Setup(self).theset /\ db[a] # NoRow

\* C25: when the parent chain of a requested key runs into a cycle of
\* uncached keys whose rows are all fetched, the rows are selected and
\* _represent_path then recurses without end: the lookup returns no label
C25_Cycle ==
    [][\A k \in Keys :
           IntoCycle(k) =>
               /\ Len(last'.fetched) = 1
               /\ last'.err = "RuntimeError"
               /\ last'.ret = <<>> /\ last'.map = EmptyMap]_vars

\* C25: the lookup of key 3, whose parent 1 is on the cycle 1 -> 2 -> 1, has
\* not returned
C25_Witness ==
    /\ parent[1] = 2 /\ parent[2] = 1 /\ parent[3] = 1
    /\ last.op = "call" /\ last.value = PyInt(3) /\ last.rows = <<>>
    /\ last.fetched = <<{PyInt(1), PyInt(2), PyInt(3)}>>
    /\ last.err = "RuntimeError"

\* the step is a hierarchical lookup by value of key k that raised nothing
HierLookup(k) ==
    /\ last'.op \in {"call", "multiple", "bulk"} /\ last'.rows = <<>> /\ last'.err = ""
    /\ self.hierarchy.on /\ schema.hconfig
    /\ PyInt(k) \in Requested(last')

\* the select of the step returned the row of key a
FetchedRow(a) ==
    /\ Len(last'.fetched) = 1 /\ PyInt(a) \in last'.fetched[1]
    /\ db[a] # NoRow

\* C26 as stated: after a hierarchical lookup of key k, every ancestor of k
\* whose row was fetched in that batch is in theset
C26_Original ==
    [][\A k \in Keys : \A a \in Up({k}, MaxKey) \ {k} :
           (HierLookup(k) /\ FetchedRow(a)) => PyInt(a) \in DOMAIN self'.theset]_vars

\* C26, amended: after a hierarchical lookup of key k, every ancestor of k
\* that the fetched rows connect to k (the rows of k, of the ancestor and of
\* every key between them were fetched in that batch) is in theset with its
\* own path label, made of the label cached for its parent and of its row;
\* and a later __call__ of a cached key makes no select and returns the
\* cached label, the prefix of the labels of its children
C26_Cached ==
    [][/\ \A k \in Keys : \A i \in 1..Len(PathOf(k)) :
              (/\ HierLookup(k)
               /\ \A j \in i..Len(PathOf(k)) : FetchedRow(PathOf(k)[j]))
                  => /\ PyInt(PathOf(k)[i]) \in DOMAIN self'.theset
                     /\ self'.theset[PyInt(PathOf(k)[i])] =
                            IF i > 1 /\ PyInt(PathOf(k)[i - 1]) \in DOMAIN self'.theset
                            THEN Format(self'.htemplate,
                                        <<self'.theset[PyInt(PathOf(k)[i - 1])],
                                          RowLabel(PyInt(PathOf(k)[i]))>>)
                            ELSE RowLabel(PyInt(PathOf(k)[i]))
       /\ \A v \in IntValues :
              (/\ last'.op = "call" /\ last'.rows = <<>> /\ last'.value = v
               /\ self.hierarchy.on /\ Cached(v))
                  => (last'.fetched = <<>> /\ last'.ret = CachedLabel(v))]_vars

\* C26: after one select for the chain 3 -> 2 -> 1, __call__(2) has returned
\* the path of 2, the prefix of the label of 3, without a select
C26_Witness ==
    /\ self.hierarchy.on /\ ~self.show_link
    /\ parent[3] = 2 /\ parent[2] = 1 /\ parent[1] = 0
    /\ self.queries = 1 /\ Cardinality(DOMAIN self.theset) = 3
    /\ last.op = "call" /\ last.value = PyInt(2) /\ last.fetched = <<>>
    /\ last.ret = <<db[1], " > ", db[2]>>
    /\ self.theset[PyInt(3)] = last.ret \o <<" > ", db[3]>>

\* C27: when the caller gives rows, which hold a row for every requested
\* key, and no custom lookup_rows is in effect, the keys are resolved from
\* those rows, their labels are cached and no select is made, on flat and
\* on hierarchical representers
C27_GivenRows ==
    [][(/\ last'.op \in {"call", "multiple", "bulk"} /\ last'.rows # <<>>
        /\ Setup(self).table /\ ~self.custom_lookup)
           => /\ last'.err = ""
              /\ GivenKeys \subseteq DOMAIN self'.theset
              /\ last'.fetched = <<>>]_vars

\* the step is __call__(v) by value on a scalar representer with its table,
\* v not falsy
CallOf(v) ==
    /\ last'.op = "call" /\ last'.rows = <<>> /\ last'.value = v /\ last'.err = ""
    /\ ~self.list_type /\ Setup(self).table /\ Truthy(v)

\* the label l as the step shows it for the raw value v
ShownAs(v, l) == IF last'.show_link /\ self.show_link THEN LinkOf(v, l) ELSE l

\* what __call__(v), with the show_link of the step, gives next
Then(v) == call(self', v, NoRows, last'.show_link)

\* C28: with a lookup table, __call__ of a string that int() accepts selects
\* and caches under the integer, never under the string, and returns the
\* label of the integer's row, shown for the raw string; once either of the
\* string and the integer has been looked up and a row was found, __call__
\* of the other makes no select and returns the same label (the same
\* result, when the string is the integer's decimal form and so gives the
\* same link); a string that int() rejects is selected as it is
C28_Coercion ==
    [][/\ \A v \in StrValues :
              (CallOf(v) /\ CanParseInt(v.txt)) =>
                  /\ v \notin DOMAIN self'.theset
                  /\ \A i \in 1..Len(last'.fetched) :
                         last'.fetched[i] = {PyInt(ParseInt(v.txt))}
                  /\ db[ParseInt(v.txt)] # NoRow =>
                         /\ PyInt(ParseInt(v.txt)) \in DOMAIN self'.theset
                         /\ last'.ret = ShownAs(v, self'.theset[PyInt(ParseInt(v.txt))])
                         /\ Then(PyInt(ParseInt(v.txt))).fetched = <<>>
                         /\ Then(PyInt(ParseInt(v.txt))).ret =
                                ShownAs(PyInt(ParseInt(v.txt)), self'.theset[PyInt(ParseInt(v.txt))])
                         /\ v.txt = IntStr(ParseInt(v.txt)) =>
                                Then(PyInt(ParseInt(v.txt))).ret = last'.ret
       /\ \A k \in Keys :
              (CallOf(PyInt(k)) /\ db[k] # NoRow) =>
                  /\ Then(PyStr(IntStr(k))).fetched = <<>>
                  /\ Then(PyStr(IntStr(k))).ret = last'.ret
                  /\ Then(PyStr(<<"0">> \o IntStr(k))).fetched = <<>>
                  /\ DOMAIN Then(PyStr(<<"0">> \o IntStr(k))).self.theset = DOMAIN self'.theset
       /\ \A v \in StrValues :
              (CallOf(v) /\ ~CanParseInt(v.txt)) =>
                  /\ last'.fetched = <<{v}>>
                  /\ DOMAIN self'.theset = DOMAIN Setup(self).theset]_vars

\* C28: after one select, for key 1, __call__("01") has returned the label
\* of row 1 without a select, and theset holds the key 1 only
C28_Witness ==
    /\ ~self.list_type /\ ~self.show_link /\ self.table
    /\ last.op = "call" /\ last.value = PyStr(<<"0">> \o IntStr(1)) /\ last.fetched = <<>>
    /\ self.queries = 1 /\ DOMAIN self.theset = {PyInt(1)}
    /\ last.ret = self.theset[PyInt(1)]

\* C29: on a scalar representer that shows no links, __call__(v) returns the
\* label that bulk([v]), begun on the same cache, maps v to, for every
\* scalar v, the falsy 0 and '' included
C29_SingleAsBulk ==
    [][\A v \in Scalars :
           (/\ last'.op = "call" /\ last'.rows = <<>> /\ last'.value = v
            /\ ~self.list_type /\ ~self.show_link)
               => /\ bulk(self, PyList(<<v>>), NoRows, TRUE, TRUE, <<>>).err = last'.err
                  /\ v \in DOMAIN bulk(self, PyList(<<v>>), NoRows, TRUE, TRUE, <<>>).ret
                  /\ last'.ret = bulk(self, PyList(<<v>>), NoRows, TRUE, TRUE, <<>>).ret[v]]_vars

\* the keys the step added to theset
Added == DOMAIN self'.theset \ DOMAIN Setup(self).theset

\* the keys the selects of the step were made for
Selected == UNION {last'.fetched[i] : i \in 1..Len(last'.fetched)}

\* C30 as stated: after setup, a key gets into theset only as the result of
\* a select made by _lookup; the rows given by the caller add none
C30_Original ==
    [][self'.setup => Added \subseteq Selected]_vars

\* C30, amended: after setup, a key gets into theset only inside _lookup:
\* as the key of a row that a select of the step returned, or as the key of
\* a row the caller gave; making a lazy representation and a change of the
\* lookup table add none
C30_AddedInLookup ==
    [][self'.setup =>
          /\ \A k \in Added :
                 \/ k \in Selected /\ k \in DOMAIN Select({k})
                 \/ k \in GivenKeys /\ self'.table
          /\ last'.op \in {"lazy", "db"} => self'.theset = self.theset]_vars

\* C30: a flat representer has made one select, and __call__ with the row
\* of another key has then cached that key without a select
C30_Witness ==
    /\ ~self.hierarchy.on /\ self.queries = 1
    /\ last.op = "call" /\ last.rows # <<>> /\ last.fetched = <<>>
    /\ RowKey(last.rows[1]) \in DOMAIN self.theset
    /\ Cardinality(DOMAIN self.theset) = 2

\* the step is a call with the row of key k, the row as the lookup table
\* has it, on a hierarchical representer that had no label for k
KnownRow(k) ==
    /\ last'.op = "call" /\ last'.rows = <<Row(k, db[k])>> /\ last'.err = ""
    /\ self.hierarchy.on /\ schema.hconfig
    /\ PyInt(k) \notin DOMAIN Setup(self).theset

\* the representer after __call__(k) by value, begun on the same cache
ByFetch(k) == call(self, PyInt(k), NoRows, last'.show_link).self

\* C31: in hierarchy mode, the label that a call with the row of a key that
\* has a parent caches for the key is the label that a call by value, which
\* fetches the row, caches for it from the same cache and lookup table
C31_SameLabel ==
    [][\A k \in Keys :
           (KnownRow(k) /\ parent[k] # 0 /\ db[k] # NoRow)
               => /\ PyInt(k) \in DOMAIN self'.theset
                  /\ PyInt(k) \in DOMAIN ByFetch(k).theset
                  /\ self'.theset[PyInt(k)] = ByFetch(k).theset[PyInt(k)]]_vars

\* the step is bulk() of a list holding the distinct raw values v and w on a
\* scalar representer with its lookup table
BulkOfBoth(v, w) ==
    /\ last'.op = "bulk" /\ last'.rows = <<>> /\ last'.err = ""
    /\ ~self.list_type /\ Setup(self).table
    /\ v # w /\ {v, w} \subseteq Asked(last')

\* C32: when one bulk() holds two distinct raw values of the same lookup
\* key, and the lookup table has a row for the key, the returned mapping has
\* the label of that row under both raw values, shown as a link to the raw
\* value when links are shown, whether the key was cached or not
C32_BothRaw ==
    [][\A v, w \in MixedValues :
           (/\ BulkOfBoth(v, w)
            /\ LookupKey(Setup(self), v) = LookupKey(Setup(self), w)
            /\ HasRow(v))
               => /\ {v, w} \subseteq DOMAIN last'.map
                  /\ last'.map[v] = ShownAs(v, self'.theset[LookupKey(self', v)])
                  /\ last'.map[w] = ShownAs(w, self'.theset[LookupKey(self', w)])]_vars

\* C33: the mapping bulk() returns on a hierarchical representer has the
\* requested raw values, and None, as its only keys: a key that was only
\* enqueued as an ancestor of a requested key is not among them, whether
\* the select returned its row or not
C33_RequestedOnly ==
    [][(/\ last'.op = "bulk" /\ last'.err = ""
        /\ self.hierarchy.on /\ schema.hconfig)
           => DOMAIN last'.map \subseteq Requested(last') \cup {None}]_vars

\* the bulk() of the queue that a flush begun now makes, raises
FlushRaises ==
    /\ self.lazy # <<>>
    /\ \A ord \in Queue : bulk(self, PyList(self.lazy), NoRows, TRUE, TRUE, ord).err # ""

\* C34: when the bulk() of a flush raises, in represent() or in render(),
\* the exception goes to the caller and the queue of the renderer is as it
\* was before: no value has left it, and no lazy representation is lost
C34_QueueKept ==
    [][(last'.op \in {"represent", "render"} /\ FlushRaises)
           => /\ \E ord \in Queue :
                     last'.err = bulk(self, PyList(self.lazy), NoRows, TRUE, TRUE, ord).err
              /\ self'.lazy = self.lazy
              /\ lazies' = lazies]_vars

\* C34: represent() has raised the ValueError of bulk() for a queue of two
\* values, one of them malformed, and both values are still queued
C34_Witness ==
    /\ self.list_type
    /\ last.op = "represent" /\ last.err = "ValueError"
    /\ self.lazy = <<PyList(<<PyInt(1)>>), PyInt(1)>>

\* the step is a represent() that flushed the queue itself and raised nothing
OwnFlush ==
    /\ last'.op = "represent" /\ last'.err = ""
    /\ self.lazy # <<>> /\ self'.lazy = <<>>

\* what represent() of the value of the step gives next, the queue being
\* drained and the lookup table the same
Drained == represent(self', S3RepresentLazy(last'.value), <<>>, <<>>)

\* C35: on a representer that shows no links, the represent() that has
\* flushed the queue itself, taking its labels from bulk(), returns what
\* represent() of the same value returns from the drained queue, taking its
\* labels from theset
C35_AnyFlusher ==
    [][(OwnFlush /\ ~self.show_link)
           => Drained.err = "" /\ Drained.ret = last'.ret]_vars

\* r(v, show_link=False) called directly instead of the step, on the same
\* representer over the same lookup table
Direct == call(self, last'.value, NoRows, FALSE)

Left == QueueIdx \ (Len(lazies') - Len(self'.lazy) + 1)..Len(lazies')

\* C37 as stated: with two contexts interleaving on one representer, no
\* value leaves the queue without having been in the argument of the bulk()
\* of a flush
C37_Original ==
    [][Left \subseteq ctx'.flushed]_vars

\* C37, amended: with two contexts interleaving on one representer, a value
\* leaves the queue only by the reset of a context that has called bulk();
\* it has then been in the argument of a bulk(), or it was appended after
\* that context called bulk(), between its bulk() and its reset; a value
\* that has left the queue does not come back into it, so a value dropped
\* without a flush is in no later batch
C37_WindowOnly ==
    [][/\ \A i \in Left :
              \E c \in Contexts :
                  /\ ctx.pc[c] = "bulked" /\ ctx'.pc[c] = "ready"
                  /\ i \in ctx.flushed \/ i > ctx.high[c]
       /\ ctx'.flushed \ ctx.flushed \subseteq QueueIdx
       /\ \A i \in 1..Len(lazies) :
              i \notin QueueIdx => i \notin (Len(lazies') - Len(self'.lazy) + 1)..Len(lazies')]_vars

\* C37: a value was appended while a context was between its bulk() and
\* its reset, and the reset has taken it out of the queue unflushed
C37_Witness ==
    /\ last.op = "reset" /\ self.lazy = <<>>
    /\ Len(lazies) = 2 /\ ctx.flushed = {1}
    /\ \E c \in Contexts : ctx.pc[c] = "ready" /\ ctx.high[c] = 1

====
